---- MODULE Spec2Model ----
(***************************************************************************)
(* Series resolution and knowledge-base population of chat-with-fred.      *)
(*                                                                         *)
(* The model follows backend/analysis.py (SeriesAnalyzer.find_series and   *)
(* _enhance_and_store_series), backend/vector_db.py (VectorDBConfig,       *)
(* VectorDBManager) and backend/schemas.py (SeriesSelection,               *)
(* SeriesMapping).  The external collaborators (embedding function,        *)
(* semantic index, catalog service, reasoning oracle) are modelled by      *)
(* their outcomes: every call either fails (raises) or returns a value     *)
(* drawn from a small set.                                                 *)
(*                                                                         *)
(* Several find_series calls run against one shared semantic index and     *)
(* interleave at external-call boundaries (Spec); SpecSeq runs the same    *)
(* actions one call at a time.                                             *)
(***************************************************************************)
EXTENDS Integers, Sequences, FiniteSets, TLC

\* ------------------------------------------------------------------------
\* Bounds of the model
\* ------------------------------------------------------------------------

\* number of find_series calls in one run
NumCalls == 2

\* number of entries of initial_mappings that startup seeding walks through
NumSeeds == 1

\* ------------------------------------------------------------------------
\* Program constants
\* ------------------------------------------------------------------------

\* Python's None
None == "<None>"

\* a key that a pandas row / Series does not carry
Missing == "<missing>"

\* the float NaN pandas puts in a cell that has no value
NaN == "<NaN>"

DEFAULT_REGION == "United States"

\* VectorDBManager.search_series(query, top_k = 5)
TopK == 5

\* DataFrame.head() keeps the first 5 rows
HeadRows == 5

\* SeriesSelection.is_valid: confidence > 0.7, confidences are in tenths
ConfidenceThreshold == 7

\* the series_id column of VectorDBConfig._seed_vector_db.initial_mappings
CoreSeries == <<"GDP", "CPIAUCSL", "FPCPITOTLZGEUU", "UNRATE", "DFF">>

\* the keywords column of initial_mappings
CoreKeywords ==
    <<{"gdp", "economic growth", "output"},
      {"inflation", "prices", "cpi", "consumer price index"},
      {"inflation", "prices", "cpi", "eurozone", "european union", "eu",
       "europe", "euro", "consumer price index"},
      {"unemployment", "jobless", "jobs"},
      {"interest", "rate", "federal funds rate", "monetary policy"}>>

\* ------------------------------------------------------------------------
\* Input domains
\* ------------------------------------------------------------------------

Calls == 1 .. NumCalls

\* series identifiers the reasoning oracle may name
SeriesIds == {"GDP"}

\* the (user_query, concept, region) arguments of the calls
RequestPool ==
    <<[user_query |-> "us gdp", concept |-> "GDP", region |-> "United States"],
      [user_query |-> "", concept |-> "", region |-> ""]>>

RequestOf(c) == RequestPool[((c - 1) % Len(RequestPool)) + 1]

\* what the reasoning oracle may answer for a SeriesSelection
\* (confidences in tenths): valid answers, and one answer for each way of
\* being not valid
OracleSelections ==
    [series_id : SeriesIds, confidence : {8}, reasoning : {"best match"},
     region_match : {TRUE}]
    \cup [series_id : SeriesIds, confidence : {7}, reasoning : {"close"},
          region_match : {TRUE}]
    \cup [series_id : SeriesIds, confidence : {10}, reasoning : {"other region"},
          region_match : {FALSE}]
    \cup [series_id : {None, ""}, confidence : {9}, reasoning : {"nothing fits"},
          region_match : {TRUE}]

\* two answers of the reasoning oracle for a SeriesEnhancement
OutputEnhancement ==
    [description |-> "total output", common_uses |-> <<"growth">>,
     related_concepts |-> <<"gnp">>, keywords |-> {"gdp"},
     category |-> "GDP", region |-> DEFAULT_REGION]

MoneyEnhancement ==
    [description |-> "money stock", common_uses |-> <<>>,
     related_concepts |-> <<>>, keywords |-> {"money", "m2"},
     category |-> "Money", region |-> DEFAULT_REGION]

\* what the oracle may answer to the enhancement prompt of find_series
Enhancements == {OutputEnhancement, MoneyEnhancement}

\* what the oracle may answer to the enhancement prompt of seeding
SeedEnhancements == {OutputEnhancement}

\* fred.get_series_info(series_id): the catalog's record of a series
SeriesInfoOf(sid) ==
    [title |-> sid \o " title", units |-> "Index", frequency |-> "Monthly",
     seasonal_adjustment |-> IF sid = "GDP" THEN "SA" ELSE Missing,
     notes |-> Missing, last_updated |-> "2024-01-01"]

\* rows of the DataFrame fred.search returns
RowOf(sid) ==
    [id |-> sid, title |-> sid \o " title",
     group_id |-> Missing, notes |-> IF sid = "GDP" THEN "notes" ELSE Missing,
     frequency |-> IF sid = "GDP" THEN "Quarterly" ELSE Missing,
     units |-> IF sid = "GDP" THEN "USD" ELSE Missing,
     seasonal_adjustment |-> Missing, last_updated |-> Missing]

\* what fred.search may return: None, an empty frame, or frames of hits
CatalogResults ==
    {[is_none |-> TRUE, rows |-> <<>>],
     [is_none |-> FALSE, rows |-> <<>>],
     [is_none |-> FALSE, rows |-> <<RowOf("M2SL"), RowOf("GDP")>>]}

\* the largest number of hits a search frame holds
MaxHits == 6

\* identifiers of the hits of a search frame, by position
HitIds == <<"GDP", "UNRATE", "CPIAUCSL", "M2SL", "FEDFUNDS", "PAYEMS", "DGS10", "HOUST">>

HitId(i) == HitIds[((i - 1) % Len(HitIds)) + 1]

\* row i of a search frame whose notes cell is NaN when i = nan; cols says
\* which columns the frame carries besides id and title: none ("bare"),
\* those of a series search ("fred"), or those and group_id ("all")
HitRow(i, cols, nan) ==
    LET Cell(v) == IF cols = "bare" THEN Missing ELSE v
    IN  [id |-> HitId(i),
         title |-> HitId(i) \o " title",
         group_id |-> IF cols = "all" THEN "32991" ELSE Missing,
         notes |-> IF i = nan THEN NaN ELSE Cell("notes on " \o HitId(i)),
         frequency |-> Cell("Monthly"),
         units |-> Cell("Percent"),
         seasonal_adjustment |-> Cell("Seasonally Adjusted"),
         last_updated |-> Cell("2024-01-01")]

\* the frames fred.search may return to the conversion
Frames ==
    {[is_none |-> FALSE, rows |-> [i \in 1 .. n |-> HitRow(i, "bare", 0)]] :
        n \in 0 .. MaxHits}
    \cup UNION {{[is_none |-> FALSE, rows |-> [i \in 1 .. n |-> HitRow(i, cols, nan)]] :
                    nan \in 0 .. n, cols \in {"fred", "all"}} : n \in 0 .. MaxHits}

\* ------------------------------------------------------------------------
\* backend/schemas.py
\* ------------------------------------------------------------------------

\* Python truthiness of an Optional[str]
Truthy(s) == s # None /\ s # ""

\* dict.get(key, default) / Series.get(key, default)
Get(rec, key, default) == IF rec[key] = Missing THEN default ELSE rec[key]

IsValidIgnoresRegion(sel) ==
    Truthy(sel.series_id) /\ sel.confidence > ConfidenceThreshold

IsValidStrict(sel) ==
    /\ Truthy(sel.series_id)
    /\ sel.confidence > ConfidenceThreshold + 2
    /\ sel.region_match

IsValidLoose(sel) ==
    /\ Truthy(sel.series_id)
    /\ sel.confidence >= ConfidenceThreshold
    /\ sel.region_match

\* SeriesSelection.is_valid
IsValid(sel) ==
    /\ Truthy(sel.series_id)
    /\ sel.confidence > ConfidenceThreshold
    /\ sel.region_match

EmbeddingIdBare(series_id) == series_id

\* f"series_{series_id}"
EmbeddingId(series_id) == "series_" \o series_id

\* SeriesMapping.from_fred_series; keywords are list(set(...)), a set here
FromFredSeries(series_id, series_info, enhanced_info, keywords) ==
    LET metadata ==
            [title |-> Get(series_info, "title", ""),
             units |-> Get(series_info, "units", ""),
             frequency |-> Get(series_info, "frequency", ""),
             seasonal_adjustment |-> Get(series_info, "seasonal_adjustment", ""),
             notes |-> Get(series_info, "notes", ""),
             last_updated |-> Get(series_info, "last_updated", "")]
    IN  [series_id |-> series_id,
         embedding_id |-> EmbeddingId(series_id),
         title |-> metadata.title,
         keywords |-> keywords \cup enhanced_info.keywords,
         region |-> enhanced_info.region,
         category |-> enhanced_info.category,
         description |-> enhanced_info.description,
         frequency |-> metadata.frequency,
         units |-> metadata.units,
         seasonal_adjustment |-> metadata.seasonal_adjustment,
         common_uses |-> enhanced_info.common_uses,
         related_concepts |-> enhanced_info.related_concepts,
         metadata |-> metadata]

\* SeriesMapping.to_pinecone_dict
ToPineconeDict(m) ==
    [series_id |-> m.series_id,
     title |-> m.title,
     keywords |-> m.keywords,
     region |-> m.region,
     category |-> m.category,
     description |-> m.description,
     frequency |-> m.frequency,
     units |-> m.units,
     seasonal_adjustment |->
         IF Truthy(m.seasonal_adjustment) THEN m.seasonal_adjustment ELSE "",
     common_uses |-> m.common_uses,
     related_concepts |-> m.related_concepts,
     metadata_title |-> Get(m.metadata, "title", ""),
     metadata_units |-> Get(m.metadata, "units", ""),
     metadata_frequency |-> Get(m.metadata, "frequency", ""),
     metadata_notes |-> Get(m.metadata, "notes", ""),
     metadata_last_updated |-> Get(m.metadata, "last_updated", "")]

\* SeriesMapping.from_pinecone_dict
FromPineconeDict(data) ==
    [series_id |-> data.series_id,
     embedding_id |-> EmbeddingId(data.series_id),
     title |-> data.title,
     keywords |-> data.keywords,
     region |-> data.region,
     category |-> data.category,
     description |-> data.description,
     frequency |-> data.frequency,
     units |-> data.units,
     seasonal_adjustment |-> data.seasonal_adjustment,
     common_uses |-> data.common_uses,
     related_concepts |-> data.related_concepts,
     metadata |->
         [title |-> data.metadata_title,
          units |-> data.metadata_units,
          frequency |-> data.metadata_frequency,
          notes |-> data.metadata_notes,
          last_updated |-> data.metadata_last_updated,
          seasonal_adjustment |-> Missing]]

\* the first n elements of a sequence (DataFrame.head, top_k)
Take(seq, n) == SubSeq(seq, 1, IF Len(seq) < n THEN Len(seq) ELSE n)

\* one row of SeriesAnalyzer._convert_fred_results_to_mappings
ConvertRow(row) ==
    [series_id |-> row.id,
     title |-> row.title,
     keywords |-> {},
     region |-> "",
     category |-> Get(row, "group_id", "Unknown"),
     description |-> Get(row, "notes", ""),
     frequency |-> Get(row, "frequency", "Unknown"),
     units |-> Get(row, "units", "Unknown"),
     seasonal_adjustment |-> Get(row, "seasonal_adjustment", None),
     common_uses |-> <<>>,
     related_concepts |-> <<>>,
     metadata |->
         [title |-> row.title,
          notes |-> Get(row, "notes", ""),
          frequency |-> Get(row, "frequency", "Unknown"),
          units |-> Get(row, "units", "Unknown"),
          seasonal_adjustment |-> Get(row, "seasonal_adjustment", None),
          last_updated |-> Get(row, "last_updated", "Unknown")],
     embedding_id |-> EmbeddingId(row.id)]

\* whether SeriesMapping(...) accepts the cells of a row: row['id'] and
\* row['title'] raise on a frame without the column, and a str field
\* rejects the float NaN
RowConverts(row) ==
    /\ row.id \notin {Missing, NaN}
    /\ row.title \notin {Missing, NaN}
    /\ Get(row, "group_id", "Unknown") # NaN
    /\ Get(row, "notes", "") # NaN
    /\ Get(row, "frequency", "Unknown") # NaN
    /\ Get(row, "units", "Unknown") # NaN
    /\ Get(row, "seasonal_adjustment", None) # NaN

\* the loop of _convert_fred_results_to_mappings: a row whose conversion
\* raises is logged and left out
RECURSIVE ConvertRows(_)
ConvertRows(rows) ==
    IF rows = <<>> THEN <<>>
    ELSE IF RowConverts(Head(rows))
         THEN <<ConvertRow(Head(rows))>> \o ConvertRows(Tail(rows))
         ELSE ConvertRows(Tail(rows))

ConvertFredResultsToMappingsAllRows(results) == ConvertRows(results.rows)

\* SeriesAnalyzer._convert_fred_results_to_mappings
ConvertFredResultsToMappings(results) == ConvertRows(Take(results.rows, HeadRows))

CreateNoMatchSelectionEmptyReason(concept, region) ==
    [series_id |-> None, confidence |-> 0, reasoning |-> "", region_match |-> FALSE]

\* SeriesAnalyzer._create_no_match_selection
CreateNoMatchSelection(concept, region) ==
    [series_id |-> None,
     confidence |-> 0,
     reasoning |-> "No assets found for " \o concept \o " in " \o region,
     region_match |-> FALSE]

\* ------------------------------------------------------------------------
\* The semantic index (Pinecone): a set of (id, metadata) vectors
\* ------------------------------------------------------------------------

SeriesExistsBareKey(idx, series_id) == \E e \in idx : e.id = series_id

\* index.fetch([f"series_{series_id}"]).vectors is non-empty
SeriesExists(idx, series_id) == \E e \in idx : e.id = EmbeddingId(series_id)

UpsertAppend(idx, id, metadata) == idx \cup {[id |-> id, metadata |-> metadata]}

\* index.upsert(vectors = [(id, embedding, metadata)])
Upsert(idx, id, metadata) ==
    {e \in idx : e.id # id} \cup {[id |-> id, metadata |-> metadata]}

\* the entry store_series writes for a mapping
EntryOf(mapping) == [id |-> mapping.embedding_id, metadata |-> ToPineconeDict(mapping)]

\* sequences without repetition over a set, of length at most n
RECURSIVE Arrangements(_, _)
Arrangements(S, n) ==
    IF n = 0 \/ S = {} THEN {<<>>}
    ELSE {<<>>} \cup UNION {{<<e>> \o t : t \in Arrangements(S \ {e}, n - 1)} : e \in S}

\* index contents a run may find at startup (left by earlier runs)
PriorIndexes ==
    {{},
     {EntryOf(FromFredSeries("GDP", SeriesInfoOf("GDP"), OutputEnhancement, {}))},
     {EntryOf(FromFredSeries("UNRATE", SeriesInfoOf("UNRATE"), OutputEnhancement, {}))}}

\* ------------------------------------------------------------------------
\* Calendar dates (datetime, timedelta, relativedelta, strptime, isoformat)
\* ------------------------------------------------------------------------

\* an Optional value: <<>> is None, <<x>> is the value x
NoValue == <<>>

Some(x) == <<x>>

\* a calendar date
Date(y, m, d) == [year |-> y, month |-> m, day |-> d]

IsLeap(y) == y % 4 = 0 /\ (y % 100 # 0 \/ y % 400 = 0)

\* calendar.monthrange(y, m)[1]
DaysInMonth(y, m) ==
    IF m = 2 THEN (IF IsLeap(y) THEN 29 ELSE 28)
    ELSE IF m \in {4, 6, 9, 11} THEN 30 ELSE 31

\* whether year, month, day name a date datetime accepts
IsDate(y, m, d) ==
    /\ y >= 1 /\ y <= 9999
    /\ m >= 1 /\ m <= 12
    /\ d >= 1 /\ d <= DaysInMonth(y, m)

\* number of days before January 1st of year y
DaysBeforeYear(y) ==
    (y - 1) * 365 + ((y - 1) \div 4) - ((y - 1) \div 100) + ((y - 1) \div 400)

\* number of days in year y before the first day of month m
RECURSIVE DaysBeforeMonth(_, _)
DaysBeforeMonth(y, m) ==
    IF m = 1 THEN 0 ELSE DaysBeforeMonth(y, m - 1) + DaysInMonth(y, m - 1)

\* date.toordinal(): January 1st of year 1 is day 1
ToOrdinal(dt) == DaysBeforeYear(dt.year) + DaysBeforeMonth(dt.year, dt.month) + dt.day

\* date.fromordinal(n)
FromOrdinal(n) ==
    LET y == CHOOSE yy \in (n \div 366) .. (n \div 365 + 1) :
                 DaysBeforeYear(yy) < n /\ n <= DaysBeforeYear(yy + 1)
        r == n - DaysBeforeYear(y)
        m == CHOOSE mm \in 1 .. 12 :
                 DaysBeforeMonth(y, mm) < r /\ r <= DaysBeforeMonth(y, mm) + DaysInMonth(y, mm)
    IN  Date(y, m, r - DaysBeforeMonth(y, m))

MinusDaysForward(dt, n) == FromOrdinal(ToOrdinal(dt) + n)

\* current_date - timedelta(days=n)
MinusDays(dt, n) == FromOrdinal(ToOrdinal(dt) - n)

MinusRelativeDeltaOverflow(dt, years, months) ==
    LET ys == years + (months \div 12)
        ms == months % 12
        y0 == dt.year - ys
        m0 == dt.month - ms
        y1 == IF m0 < 1 THEN y0 - 1 ELSE y0
        m1 == IF m0 < 1 THEN m0 + 12 ELSE m0
    IN  FromOrdinal(ToOrdinal(Date(y1, m1, 1)) + dt.day - 1)

\* current_date - relativedelta(years=years, months=months): relativedelta
\* carries whole dozens of months into years, the month is brought back
\* into 1..12, and the day is cut down to the length of the target month
MinusRelativeDelta(dt, years, months) ==
    LET ys == years + (months \div 12)
        ms == months % 12
        y0 == dt.year - ys
        m0 == dt.month - ms
        y1 == IF m0 < 1 THEN y0 - 1 ELSE y0
        m1 == IF m0 < 1 THEN m0 + 12 ELSE m0
        last == DaysInMonth(y1, m1)
    IN  Date(y1, m1, IF dt.day > last THEN last ELSE dt.day)

\* the ten decimal digits
DigitChars == <<"0", "1", "2", "3", "4", "5", "6", "7", "8", "9">>

IsDigit(ch) == \E i \in 1 .. 10 : DigitChars[i] = ch

DigitValue(ch) == (CHOOSE i \in 1 .. 10 : DigitChars[i] = ch) - 1

Pad2(n) == DigitChars[(n \div 10) + 1] \o DigitChars[(n % 10) + 1]

\* date.isoformat(): YYYY-MM-DD
IsoFormat(dt) ==
    Pad2(dt.year \div 100) \o Pad2(dt.year % 100) \o "-" \o Pad2(dt.month) \o "-" \o Pad2(dt.day)

\* the pattern ^\d{2}-\d{2}-\d{4}$ on a text given as its characters
MatchesPattern(text) ==
    /\ Len(text) = 10
    /\ text[3] = "-" /\ text[6] = "-"
    /\ \A i \in {1, 2, 4, 5, 7, 8, 9, 10} : IsDigit(text[i])

\* the number written by the characters from..to of the text
RECURSIVE Number(_, _, _)
Number(text, from, to) ==
    IF to < from THEN 0
    ELSE 10 * Number(text, from, to - 1) + DigitValue(text[to])

StrptimeDayFirst(text) ==
    LET m == Number(text, 4, 5)
        d == Number(text, 1, 2)
        y == Number(text, 7, 10)
    IN  IF IsDate(y, m, d) THEN [ok |-> TRUE, date |-> Date(y, m, d)]
        ELSE [ok |-> FALSE, date |-> Date(1, 1, 1)]

\* datetime.strptime(text, "%m-%d-%Y") for a text that matches the pattern:
\* ValueError (ok = FALSE) unless month, day and year name a date
Strptime(text) ==
    LET m == Number(text, 1, 2)
        d == Number(text, 4, 5)
        y == Number(text, 7, 10)
    IN  IF IsDate(y, m, d) THEN [ok |-> TRUE, date |-> Date(y, m, d)]
        ELSE [ok |-> FALSE, date |-> Date(1, 1, 1)]

\* ------------------------------------------------------------------------
\* GetDateRequest, GetDateRequests
\* ------------------------------------------------------------------------

\* the largest duration the date oracle asks for, besides the fixed ones
MaxDuration == 2

\* how often midnight may pass while extract_metadata runs
MaxTicks == 1

\* class Period
Periods == {"day", "week", "month", "year", "current", "exact"}

\* a text as the sequence of its characters
DateText(a, b, c, d, e, f, g, h, i, j) == <<a, b, c, d, e, f, g, h, i, j>>

\* exact_date texts the date oracle may write
ExactTexts ==
    {DateText("0", "1", "-", "0", "1", "-", "2", "0", "2", "0"),
     DateText("0", "2", "-", "2", "9", "-", "2", "0", "2", "4"),
     DateText("1", "2", "-", "3", "1", "-", "1", "9", "9", "9"),
     DateText("0", "2", "-", "3", "0", "-", "2", "0", "2", "1"),
     DateText("0", "2", "-", "2", "9", "-", "2", "0", "2", "3"),
     DateText("1", "3", "-", "4", "5", "-", "2", "0", "2", "0"),
     DateText("0", "3", "-", "0", "4", "-", "2", "0", "2", "1"),
     DateText("2", "0", "2", "0", "-", "0", "1", "-", "0", "1"),
     <<"1", "-", "1", "-", "2", "0", "2", "0">>,
     <<>>}

\* duration values the date oracle may write
DurationValues ==
    {NoValue, Some(0), Some(-1), Some(10), Some(14)} \cup {Some(n) : n \in 1 .. MaxDuration}

\* one side of a date range as the date oracle may write it
RawSides ==
    {[period |-> p, duration |-> d, exact_date |-> NoValue] :
        p \in {"day", "week", "month", "year"}, d \in DurationValues}
    \cup {[period |-> "exact", duration |-> d, exact_date |-> e] :
            d \in {NoValue, Some(1)}, e \in {NoValue} \cup {Some(t) : t \in ExactTexts}}
    \cup {[period |-> "current", duration |-> NoValue, exact_date |-> NoValue],
          [period |-> "current", duration |-> Some(3),
           exact_date |-> Some(DateText("0", "1", "-", "0", "1", "-", "2", "0", "2", "0"))],
          [period |-> "quarter", duration |-> Some(1), exact_date |-> NoValue]}

\* the validation of a GetDateRequest when it is constructed: period is a
\* Period, duration is None or > 0, exact_date is None or matches the pattern
ValidGetDateRequest(side) ==
    /\ side.period \in Periods
    /\ side.duration = NoValue \/ side.duration[1] > 0
    /\ side.exact_date = NoValue \/ MatchesPattern(side.exact_date[1])

\* a returned value
Ok(v) == [ok |-> TRUE, value |-> v]

\* a raised exception
Err(e) == [ok |-> FALSE, value |-> e]

GetDateDefaultsDuration(period, duration, exact_date, current_date) ==
    LET n == IF duration = NoValue THEN 1 ELSE duration[1]
    IN  IF period = "current" THEN Ok(IsoFormat(current_date))
        ELSE IF period = "exact" /\ exact_date # NoValue /\ exact_date[1] # <<>>
        THEN LET parsed == Strptime(exact_date[1])
             IN  IF parsed.ok THEN Ok(IsoFormat(parsed.date)) ELSE Err("ValueError")
        ELSE IF period = "day" THEN Ok(IsoFormat(MinusDays(current_date, n)))
        ELSE IF period = "week" THEN Ok(IsoFormat(MinusDays(current_date, 7 * n)))
        ELSE IF period = "month" THEN Ok(IsoFormat(MinusRelativeDelta(current_date, 0, n)))
        ELSE IF period = "year" THEN Ok(IsoFormat(MinusRelativeDelta(current_date, n, 0)))
        ELSE Err("Invalid period")

\* GetDateRequests._get_date, with current_date the value of datetime.now()
GetDate(period, duration, exact_date, current_date) ==
    IF period = "current" THEN Ok(IsoFormat(current_date))
    ELSE IF period = "exact" /\ exact_date # NoValue /\ exact_date[1] # <<>>
    THEN LET parsed == Strptime(exact_date[1])
         IN  IF parsed.ok THEN Ok(IsoFormat(parsed.date)) ELSE Err("ValueError")
    ELSE IF duration = NoValue \/ duration[1] = 0 \/ duration[1] < 0
    THEN Err("Duration must be non-negative")
    ELSE IF period = "day" THEN Ok(IsoFormat(MinusDays(current_date, duration[1])))
    ELSE IF period = "week" THEN Ok(IsoFormat(MinusDays(current_date, 7 * duration[1])))
    ELSE IF period = "month"
    THEN Ok(IsoFormat(MinusRelativeDelta(current_date, 0, duration[1])))
    ELSE IF period = "year"
    THEN Ok(IsoFormat(MinusRelativeDelta(current_date, duration[1], 0)))
    ELSE Err("Invalid period")

\* the dates the clock may show when extract_metadata begins
Nows ==
    {Date(2024, 6, 15), Date(2024, 3, 31), Date(2024, 2, 29), Date(2023, 12, 31),
     Date(2024, 3, 1)}

\* raw query texts
Queries == {"gdp over the last 10 years", ""}

\* what the oracle may answer to the metadata prompt (the dates it writes
\* are overwritten by extract_metadata)
OracleMetadata ==
    {[region |-> DEFAULT_REGION, economic_concept |-> "GDP",
      start_date |-> None, end_date |-> None],
     [region |-> "Canada", economic_concept |-> "Inflation",
      start_date |-> "2024-01-01", end_date |-> "1999-01-01"]}

\* a value not yet computed
Pending == "<pending>"

\* SeriesSelection values: series_id null, empty or an id, confidence in
\* tenths from 0 to 1, region_match either way
MaxConfidence == 10

SeriesSelections ==
    {[series_id |-> sid, confidence |-> conf, reasoning |-> "because", region_match |-> rm] :
        sid \in {None, ""} \cup SeriesIds, conf \in 0 .. MaxConfidence, rm \in BOOLEAN}

\* ------------------------------------------------------------------------
\* State
\* ------------------------------------------------------------------------

VARIABLES
    index,          \* the semantic index, shared by all calls
    indexListed,    \* index_name in self.existing_indexes
    boot,           \* startup: initialize_index and _seed_vector_db: the step
                    \* that comes next, the loop index, enhanced_info, whether
                    \* create_index succeeded, the steps done for the series
    pc,             \* per call: the external call find_series is about to make
    similar,        \* per call: similar_series (<<>> stands for None)
    mappings,       \* per call: series_mappings
    selection,      \* per call: the local variable selection
    enhanced,       \* per call: enhanced_info of _enhance_and_store_series
    result,         \* per call: the value returned to the caller
    ext,            \* per call: how often each external call was invoked
    failedAt,       \* per call: the external call that raised, "none" if none
    checked,        \* per call: what the index held when series_exists ran
    qpc,            \* extract_metadata: the step it is about to take
    query,          \* extract_metadata: the raw query text
    now,            \* the calendar date datetime.now() would return
    ticks,          \* how many times midnight passed since extract_metadata began
    requests,       \* the date range as the date oracle wrote it
    clockReads,     \* what datetime.now() returned to _get_date, per side
    dateRange,      \* start_date, end_date of extract_metadata
    metadata,       \* the QueryMetadata extract_metadata returned
    qfailed,        \* the step of extract_metadata that raised, "none" if none
    candidate,      \* a SeriesSelection value
    verdict,        \* what is_valid() answered for candidate
    frame,          \* the DataFrame fred.search returned
    records,        \* the SeriesMapping list made from frame
    record,         \* a SeriesMapping the system created
    restored,       \* the SeriesMapping rebuilt from the index entry of record
    rpc,            \* the life of record: the step that comes next
    ppc,            \* process_query: the step it is about to take
    pmetadata,      \* process_query: query_metadata
    pselection,     \* process_query: series_selection
    route,          \* the path of find_series that produced series_selection
    fetches,        \* process_query: the get_series_data calls made
    trail,          \* process_query: the steps completed, in order
    response        \* process_query: the ChatbotResponse returned

\* the state of series resolution and of the semantic index
findVars == <<index, indexListed, boot, pc, similar, mappings, selection, enhanced,
              result, ext, failedAt, checked>>

\* the state of QueryAnalyzer.extract_metadata and of the clock
queryVars == <<qpc, query, now, ticks, requests, clockReads, dateRange, metadata,
               qfailed>>

\* an is_valid() evaluation
validVars == <<candidate, verdict>>

\* the life of one SeriesMapping (the index it is stored in is in findVars)
recVars == <<frame, records, record, restored, rpc>>

\* the state of MacroSpecialist.process_query
procVars == <<ppc, pmetadata, pselection, route, fetches, trail, response>>

vars == <<findVars, queryVars, validVars, recVars, procVars>>

callVars == <<pc, similar, mappings, selection, enhanced, result, ext, failedAt, checked>>

ExtCalls == {"embed", "query", "describe", "rank", "rewrite", "catalog",
             "exists", "fetch", "enrich", "upsert"}

\* a selection variable not yet bound
Unbound == [series_id |-> None, confidence |-> 0, reasoning |-> "", region_match |-> FALSE]

\* an enhanced_info variable not yet bound
NoEnhancement == OutputEnhancement

\* a date_requests variable not yet bound
UnboundRequests ==
    [start_date |-> [period |-> "current", duration |-> NoValue, exact_date |-> NoValue],
     end_date |-> [period |-> "current", duration |-> NoValue, exact_date |-> NoValue]]

\* no QueryMetadata yet
NoMetadata ==
    [region |-> Pending, economic_concept |-> Pending,
     start_date |-> Pending, end_date |-> Pending]

\* startup has not begun: initialize_index is about to run, the seeding loop
\* would go through the first n entries of initial_mappings, create_index
\* has not succeeded and no step of the loop is done
BootInit ==
    [pc |-> "init", i |-> 1, n |-> NumSeeds, enh |-> NoEnhancement,
     created |-> FALSE, done |-> <<>>]

\* no find_series call has begun
NoCalls ==
    /\ pc = [c \in Calls |-> "idle"]
    /\ similar = [c \in Calls |-> <<>>]
    /\ mappings = [c \in Calls |-> <<>>]
    /\ selection = [c \in Calls |-> Unbound]
    /\ enhanced = [c \in Calls |-> NoEnhancement]
    /\ result = [c \in Calls |-> Unbound]
    /\ ext = [c \in Calls |-> [k \in ExtCalls |-> 0]]
    /\ failedAt = [c \in Calls |-> "none"]
    /\ checked = [c \in Calls |-> "unchecked"]

\* extract_metadata is not running
NoQuery ==
    /\ qpc = "off"
    /\ query = ""
    /\ now = Date(2024, 6, 15)
    /\ ticks = 0
    /\ requests = UnboundRequests
    /\ clockReads = [start |-> NoValue, end |-> NoValue]
    /\ dateRange = [start_date |-> Pending, end_date |-> Pending]
    /\ metadata = NoMetadata
    /\ qfailed = "none"

\* is_valid() is not being evaluated
NoEvaluation ==
    /\ candidate = Unbound
    /\ verdict = Pending

\* no SeriesMapping is being followed
NoRecord ==
    /\ frame = [is_none |-> FALSE, rows |-> <<>>]
    /\ records = <<>>
    /\ record = Pending
    /\ restored = Pending
    /\ rpc = "off"

\* no ChatbotResponse yet
NoResponse ==
    [status |-> Pending, message |-> None, series_id |-> None, confidence |-> 0]

\* process_query is not running
NoProcess ==
    /\ ppc = "off"
    /\ pmetadata = NoMetadata
    /\ pselection = Unbound
    /\ route = "none"
    /\ fetches = <<>>
    /\ trail = <<>>
    /\ response = NoResponse

Init ==
    /\ index \in PriorIndexes
    /\ indexListed \in BOOLEAN
    /\ boot = BootInit
    /\ NoCalls
    /\ NoQuery
    /\ NoEvaluation
    /\ NoRecord
    /\ NoProcess

\* no series resolution is running and the index is not touched
NoResolution ==
    /\ index = {}
    /\ indexListed = TRUE
    /\ boot = BootInit
    /\ NoCalls

\* extract_metadata(query) is called, at some date
InitQuery ==
    /\ NoResolution
    /\ NoEvaluation
    /\ NoRecord
    /\ NoProcess
    /\ qpc = "dates"
    /\ query \in Queries
    /\ now \in Nows
    /\ ticks = 0
    /\ requests = UnboundRequests
    /\ clockReads = [start |-> NoValue, end |-> NoValue]
    /\ dateRange = [start_date |-> Pending, end_date |-> Pending]
    /\ metadata = NoMetadata
    /\ qfailed = "none"

\* is_valid() is called on a SeriesSelection
InitValid ==
    /\ NoResolution
    /\ NoQuery
    /\ NoRecord
    /\ NoProcess
    /\ candidate \in SeriesSelections
    /\ verdict = Pending

\* the service starts: initialize_index runs with all of initial_mappings
InitStartup ==
    /\ index \in PriorIndexes
    /\ indexListed \in BOOLEAN
    /\ boot = [BootInit EXCEPT !.n = Len(CoreSeries)]
    /\ NoCalls
    /\ NoQuery
    /\ NoEvaluation
    /\ NoRecord
    /\ NoProcess

\* process_query(user_query) is called
InitProcess ==
    /\ NoResolution
    /\ NoEvaluation
    /\ NoRecord
    /\ qpc = "off"
    /\ query \in Queries
    /\ now = Date(2024, 6, 15)
    /\ ticks = 0
    /\ requests = UnboundRequests
    /\ clockReads = [start |-> NoValue, end |-> NoValue]
    /\ dateRange = [start_date |-> Pending, end_date |-> Pending]
    /\ metadata = NoMetadata
    /\ qfailed = "none"
    /\ ppc = "metadata"
    /\ pmetadata = NoMetadata
    /\ pselection = Unbound
    /\ route = "none"
    /\ fetches = <<>>
    /\ trail = <<>>
    /\ response = NoResponse

\* a search frame is about to be converted; the index holds what earlier
\* runs left
InitRecord ==
    /\ index \in PriorIndexes
    /\ indexListed = TRUE
    /\ boot = BootInit
    /\ NoCalls
    /\ NoQuery
    /\ NoEvaluation
    /\ NoProcess
    /\ frame \in Frames
    /\ records = <<>>
    /\ record = Pending
    /\ restored = Pending
    /\ rpc = "convert"

\* ------------------------------------------------------------------------
\* Startup: VectorDBConfig.initialize_index and _seed_vector_db
\* ------------------------------------------------------------------------

\* the loop of _seed_vector_db moves on to the next entry of initial_mappings
SeedContinue ==
    IF boot.i + 1 > boot.n
    THEN [boot EXCEPT !.pc = "ready", !.i = boot.i + 1, !.done = <<>>]
    ELSE [boot EXCEPT !.pc = "seed_exists", !.i = boot.i + 1, !.done = <<>>]

\* initialize_index, index already listed: nothing is created or seeded
InitializeIndexListed ==
    /\ boot.pc = "init"
    /\ indexListed
    /\ boot' = [boot EXCEPT !.pc = "ready"]
    /\ UNCHANGED <<index, indexListed, callVars>>
    /\ UNCHANGED <<queryVars, validVars, recVars, procVars>>

\* initialize_index, index not listed: create_index, then seed
InitializeIndexCreate ==
    /\ boot.pc = "init"
    /\ ~indexListed
    /\ \/ /\ index = {}                     \* created
          /\ boot' = [boot EXCEPT !.pc = IF boot.n = 0 THEN "ready" ELSE "seed_exists",
                                   !.created = TRUE]
       \/ boot' = [boot EXCEPT !.pc = "ready"]     \* ALREADY_EXISTS is swallowed
       \/ boot' = [boot EXCEPT !.pc = "failed"]    \* any other error is re-raised
    /\ UNCHANGED <<index, indexListed, callVars>>
    /\ UNCHANGED <<queryVars, validVars, recVars, procVars>>

\* _seed_vector_db: series_exists(series_id), outside the try block
SeedSeriesExists ==
    /\ boot.pc = "seed_exists"
    /\ \/ boot' = [boot EXCEPT !.pc = "failed"]
       \/ /\ SeriesExists(index, CoreSeries[boot.i])
          /\ boot' = SeedContinue
       \/ /\ ~SeriesExists(index, CoreSeries[boot.i])
          /\ boot' = [boot EXCEPT !.pc = "seed_fetch", !.done = <<"exists">>]
    /\ UNCHANGED <<index, indexListed, callVars>>
    /\ UNCHANGED <<queryVars, validVars, recVars, procVars>>

\* _seed_vector_db: fred.get_series_info
SeedGetSeriesInfo ==
    /\ boot.pc = "seed_fetch"
    /\ \/ boot' = SeedContinue
       \/ boot' = [boot EXCEPT !.pc = "seed_enhance", !.done = Append(@, "fetch")]
    /\ UNCHANGED <<index, indexListed, callVars>>
    /\ UNCHANGED <<queryVars, validVars, recVars, procVars>>

\* _seed_vector_db: make_instructor_call(..., SeriesEnhancement)
SeedEnhance ==
    /\ boot.pc = "seed_enhance"
    /\ \/ boot' = SeedContinue
       \/ \E e \in SeedEnhancements :
             boot' = [boot EXCEPT !.pc = "seed_store", !.enh = e,
                                  !.done = Append(@, "enrich")]
    /\ UNCHANGED <<index, indexListed, callVars>>
    /\ UNCHANGED <<queryVars, validVars, recVars, procVars>>

\* _seed_vector_db: from_fred_series and store_series
SeedStore ==
    /\ boot.pc = "seed_store"
    /\ \/ UNCHANGED index
       \/ LET sid == CoreSeries[boot.i]
              m == FromFredSeries(sid, SeriesInfoOf(sid), boot.enh, CoreKeywords[boot.i])
          IN  index' = Upsert(index, m.embedding_id, ToPineconeDict(m))
    /\ boot' = [SeedContinue EXCEPT !.enh = NoEnhancement]
    /\ UNCHANGED <<indexListed, callVars>>
    /\ UNCHANGED <<queryVars, validVars, recVars, procVars>>

\* ------------------------------------------------------------------------
\* SeriesAnalyzer.find_series, one action per external call
\* ------------------------------------------------------------------------

\* the external calls in K are invoked once more by call c
Invoke(c, K) ==
    ext' = [ext EXCEPT ![c] = [k \in ExtCalls |-> IF k \in K THEN @[k] + 1 ELSE @[k]]]

\* the call moves on to its next external call
Goto(c, label) ==
    /\ pc' = [pc EXCEPT ![c] = label]
    /\ UNCHANGED <<result, failedAt>>

\* return sel
Return(c, sel) ==
    /\ pc' = [pc EXCEPT ![c] = "returned"]
    /\ result' = [result EXCEPT ![c] = sel]
    /\ UNCHANGED failedAt

HandleExceptionReraise(c, stage) ==
    /\ pc' = [pc EXCEPT ![c] = "raised"]
    /\ failedAt' = [failedAt EXCEPT ![c] = stage]
    /\ UNCHANGED result

\* except Exception: return self._create_no_match_selection(concept, region)
HandleException(c, stage) ==
    /\ pc' = [pc EXCEPT ![c] = "returned"]
    /\ result' = [result EXCEPT ![c] =
                     CreateNoMatchSelection(RequestOf(c).concept, RequestOf(c).region)]
    /\ failedAt' = [failedAt EXCEPT ![c] = stage]

\* a request arrives and is served by the first free slot
FindSeries(c) ==
    /\ boot.pc = "ready"
    /\ pc[c] = "idle"
    /\ \A d \in Calls : d < c => pc[d] # "idle"
    /\ Goto(c, "search")
    /\ UNCHANGED <<index, indexListed, boot, similar, mappings, selection, enhanced,
                   ext, checked>>
    /\ UNCHANGED <<queryVars, validVars, recVars, procVars>>

\* a request arrives while no other call is in progress
FindSeriesAlone(c) ==
    /\ \A d \in Calls : pc[d] = "idle"
    /\ FindSeries(c)

\* the caller has the outcome; the call's frame is gone and its slot is free
Complete(c) ==
    /\ pc[c] \in {"returned", "raised"}
    /\ pc' = [pc EXCEPT ![c] = "idle"]
    /\ similar' = [similar EXCEPT ![c] = <<>>]
    /\ mappings' = [mappings EXCEPT ![c] = <<>>]
    /\ selection' = [selection EXCEPT ![c] = Unbound]
    /\ enhanced' = [enhanced EXCEPT ![c] = NoEnhancement]
    /\ result' = [result EXCEPT ![c] = Unbound]
    /\ ext' = [ext EXCEPT ![c] = [k \in ExtCalls |-> 0]]
    /\ failedAt' = [failedAt EXCEPT ![c] = "none"]
    /\ checked' = [checked EXCEPT ![c] = "unchecked"]
    /\ UNCHANGED <<index, indexListed, boot>>
    /\ UNCHANGED <<queryVars, validVars, recVars, procVars>>

SearchSeriesFailureFallsBack(c) ==
    /\ pc[c] = "search"
    /\ \/ /\ Invoke(c, {"embed"})
          /\ HandleException(c, "embed")
          /\ UNCHANGED similar
       \/ /\ Invoke(c, {"embed", "query"})
          /\ pc' = [pc EXCEPT ![c] = "rewrite"]
          /\ failedAt' = [failedAt EXCEPT ![c] = "query"]
          /\ UNCHANGED <<result, similar>>
       \/ /\ Invoke(c, {"embed", "query", "describe"})
          /\ HandleException(c, "describe")
          /\ UNCHANGED similar
       \/ /\ Invoke(c, {"embed", "query", "describe"})
          /\ similar' = [similar EXCEPT ![c] = <<>>]
          /\ Goto(c, "rewrite")
       \/ \E matches \in Arrangements(index, TopK) \ {<<>>} :
             /\ Invoke(c, {"embed", "query"})
             /\ similar' = [similar EXCEPT ![c] =
                    [i \in 1 .. Len(matches) |-> FromPineconeDict(matches[i].metadata)]]
             /\ Goto(c, "rank_vec")
    /\ UNCHANGED <<index, indexListed, boot, mappings, selection, enhanced, checked>>
    /\ UNCHANGED <<queryVars, validVars, recVars, procVars>>

\* VectorDBManager.search_series: get_embedding, index.query and, on an
\* empty result, index.describe_index_stats (the method then returns None)
SearchSeries(c) ==
    /\ pc[c] = "search"
    /\ \/ /\ Invoke(c, {"embed"})
          /\ HandleException(c, "embed")
          /\ UNCHANGED similar
       \/ /\ Invoke(c, {"embed", "query"})
          /\ HandleException(c, "query")
          /\ UNCHANGED similar
       \/ /\ Invoke(c, {"embed", "query", "describe"})
          /\ HandleException(c, "describe")
          /\ UNCHANGED similar
       \/ /\ Invoke(c, {"embed", "query", "describe"})
          /\ similar' = [similar EXCEPT ![c] = <<>>]
          /\ Goto(c, "rewrite")
       \/ \E matches \in Arrangements(index, TopK) \ {<<>>} :
             /\ Invoke(c, {"embed", "query"})
             /\ similar' = [similar EXCEPT ![c] =
                    [i \in 1 .. Len(matches) |-> FromPineconeDict(matches[i].metadata)]]
             /\ Goto(c, "rank_vec")
    /\ UNCHANGED <<index, indexListed, boot, mappings, selection, enhanced, checked>>
    /\ UNCHANGED <<queryVars, validVars, recVars, procVars>>

AnalyzeCatalogResultsAlwaysEnhances(c) ==
    /\ pc[c] = "rank_cat"
    /\ Invoke(c, {"rank"})
    /\ \/ /\ HandleException(c, "rank")
          /\ UNCHANGED selection
       \/ \E sel \in OracleSelections :
             /\ selection' = [selection EXCEPT ![c] = sel]
             /\ Goto(c, "exists")
    /\ UNCHANGED <<index, indexListed, boot, similar, mappings, enhanced, checked>>
    /\ UNCHANGED <<queryVars, validVars, recVars, procVars>>

AnalyzeVectorResultsRetries(c) ==
    /\ pc[c] = "rank_vec"
    /\ Invoke(c, {"rank"})
    /\ \/ /\ HandleException(c, "rank")
          /\ UNCHANGED selection
       \/ \E sel \in OracleSelections :
             /\ selection' = [selection EXCEPT ![c] = sel]
             /\ IF IsValid(sel)
                THEN Return(c, sel)
                ELSE Goto(c, IF ext[c].query < 2 THEN "search" ELSE "rewrite")
    /\ UNCHANGED <<index, indexListed, boot, similar, mappings, enhanced, checked>>
    /\ UNCHANGED <<queryVars, validVars, recVars, procVars>>

\* _analyze_series_mapping_results on the vector candidates, then is_valid
AnalyzeVectorResults(c) ==
    /\ pc[c] = "rank_vec"
    /\ Invoke(c, {"rank"})
    /\ \/ /\ HandleException(c, "rank")
          /\ UNCHANGED selection
       \/ \E sel \in OracleSelections :
             /\ selection' = [selection EXCEPT ![c] = sel]
             /\ IF IsValid(sel) THEN Return(c, sel) ELSE Goto(c, "rewrite")
    /\ UNCHANGED <<index, indexListed, boot, similar, mappings, enhanced, checked>>
    /\ UNCHANGED <<queryVars, validVars, recVars, procVars>>

GenerateSearchQuerySkipsCatalog(c) ==
    /\ pc[c] = "rewrite"
    /\ Invoke(c, {"rewrite"})
    /\ \/ HandleException(c, "rewrite")
       \/ Return(c, CreateNoMatchSelection(RequestOf(c).concept, RequestOf(c).region))
    /\ UNCHANGED <<index, indexListed, boot, similar, mappings, selection, enhanced,
                   checked>>
    /\ UNCHANGED <<queryVars, validVars, recVars, procVars>>

\* _generate_search_query: call_llm
GenerateSearchQuery(c) ==
    /\ pc[c] = "rewrite"
    /\ Invoke(c, {"rewrite"})
    /\ \/ HandleException(c, "rewrite")
       \/ Goto(c, "catalog")
    /\ UNCHANGED <<index, indexListed, boot, similar, mappings, selection, enhanced,
                   checked>>
    /\ UNCHANGED <<queryVars, validVars, recVars, procVars>>

FredSearchNoShortCircuit(c) ==
    /\ pc[c] = "catalog"
    /\ Invoke(c, {"catalog"})
    /\ \/ /\ HandleException(c, "catalog")
          /\ UNCHANGED mappings
       \/ \E results \in CatalogResults :
             /\ mappings' = [mappings EXCEPT ![c] = ConvertFredResultsToMappings(results)]
             /\ Goto(c, "rank_cat")
    /\ UNCHANGED <<index, indexListed, boot, similar, selection, enhanced, checked>>
    /\ UNCHANGED <<queryVars, validVars, recVars, procVars>>

\* fred.search(search_query, limit=500), the emptiness test and
\* _convert_fred_results_to_mappings
FredSearch(c) ==
    /\ pc[c] = "catalog"
    /\ Invoke(c, {"catalog"})
    /\ \/ /\ HandleException(c, "catalog")
          /\ UNCHANGED mappings
       \/ \E results \in CatalogResults :
             IF results.is_none \/ results.rows = <<>>
             THEN /\ Return(c, CreateNoMatchSelection(RequestOf(c).concept,
                                                      RequestOf(c).region))
                  /\ UNCHANGED mappings
             ELSE /\ mappings' = [mappings EXCEPT ![c] =
                                     ConvertFredResultsToMappings(results)]
                  /\ Goto(c, "rank_cat")
    /\ UNCHANGED <<index, indexListed, boot, similar, selection, enhanced, checked>>
    /\ UNCHANGED <<queryVars, validVars, recVars, procVars>>

\* _analyze_series_mapping_results on the catalog candidates, then is_valid
AnalyzeCatalogResults(c) ==
    /\ pc[c] = "rank_cat"
    /\ Invoke(c, {"rank"})
    /\ \/ /\ HandleException(c, "rank")
          /\ UNCHANGED selection
       \/ \E sel \in OracleSelections :
             /\ selection' = [selection EXCEPT ![c] = sel]
             /\ IF IsValid(sel) THEN Goto(c, "exists") ELSE Return(c, sel)
    /\ UNCHANGED <<index, indexListed, boot, similar, mappings, enhanced, checked>>
    /\ UNCHANGED <<queryVars, validVars, recVars, procVars>>

\* ------------------------------------------------------------------------
\* SeriesAnalyzer._enhance_and_store_series
\* ------------------------------------------------------------------------

\* whether the index holds a record of the series, whatever its key
Stored(idx, series_id) == \E e \in idx : e.metadata.series_id = series_id

EnhanceSeriesExistsIgnored(c) ==
    /\ pc[c] = "exists"
    /\ Invoke(c, {"exists"})
    /\ \/ /\ HandleException(c, "exists")
          /\ checked' = [checked EXCEPT ![c] = "error"]
       \/ /\ checked' = [checked EXCEPT ![c] =
                 IF Stored(index, selection[c].series_id) THEN "present" ELSE "absent"]
          /\ Goto(c, "fetch")
    /\ UNCHANGED <<index, indexListed, boot, similar, mappings, selection, enhanced>>
    /\ UNCHANGED <<queryVars, validVars, recVars, procVars>>

\* vector_db.series_exists(series_id); when true the step returns at once
\* and find_series returns the selection
EnhanceSeriesExists(c) ==
    /\ pc[c] = "exists"
    /\ Invoke(c, {"exists"})
    /\ \/ /\ HandleException(c, "exists")
          /\ checked' = [checked EXCEPT ![c] = "error"]
       \/ /\ checked' = [checked EXCEPT ![c] =
                 IF Stored(index, selection[c].series_id) THEN "present" ELSE "absent"]
          /\ IF SeriesExists(index, selection[c].series_id)
             THEN Return(c, selection[c])
             ELSE Goto(c, "fetch")
    /\ UNCHANGED <<index, indexListed, boot, similar, mappings, selection, enhanced>>
    /\ UNCHANGED <<queryVars, validVars, recVars, procVars>>

\* fred.get_series_info(series_id)
EnhanceGetSeriesInfo(c) ==
    /\ pc[c] = "fetch"
    /\ Invoke(c, {"fetch"})
    /\ \/ HandleException(c, "fetch")
       \/ Goto(c, "enrich")
    /\ UNCHANGED <<index, indexListed, boot, similar, mappings, selection, enhanced,
                   checked>>
    /\ UNCHANGED <<queryVars, validVars, recVars, procVars>>

\* make_instructor_call(enhancement_prompt, ..., SeriesEnhancement)
EnhanceSeries(c) ==
    /\ pc[c] = "enrich"
    /\ Invoke(c, {"enrich"})
    /\ \/ /\ HandleException(c, "enrich")
          /\ UNCHANGED enhanced
       \/ \E e \in Enhancements :
             /\ enhanced' = [enhanced EXCEPT ![c] = e]
             /\ Goto(c, "store")
    /\ UNCHANGED <<index, indexListed, boot, similar, mappings, selection, checked>>
    /\ UNCHANGED <<queryVars, validVars, recVars, procVars>>

StoreSeriesMinimal(c) ==
    /\ pc[c] = "store"
    /\ \/ /\ Invoke(c, {"embed"})
          /\ HandleException(c, "embed")
          /\ UNCHANGED index
       \/ /\ Invoke(c, {"embed", "upsert"})
          /\ HandleException(c, "upsert")
          /\ UNCHANGED index
       \/ /\ Invoke(c, {"embed", "upsert"})
          /\ LET mapping == mappings[c][Len(mappings[c])]
             IN  index' = Upsert(index, mapping.embedding_id, ToPineconeDict(mapping))
          /\ Return(c, selection[c])
    /\ UNCHANGED <<indexListed, boot, similar, mappings, selection, enhanced, checked>>
    /\ UNCHANGED <<queryVars, validVars, recVars, procVars>>

\* SeriesMapping.from_fred_series, then VectorDBConfig.store_series:
\* get_embedding and index.upsert; find_series then returns the selection
StoreSeries(c) ==
    /\ pc[c] = "store"
    /\ \/ /\ Invoke(c, {"embed"})
          /\ HandleException(c, "embed")
          /\ UNCHANGED index
       \/ /\ Invoke(c, {"embed", "upsert"})
          /\ HandleException(c, "upsert")
          /\ UNCHANGED index
       \/ /\ Invoke(c, {"embed", "upsert"})
          /\ LET sid == selection[c].series_id
                 mapping == FromFredSeries(sid, SeriesInfoOf(sid), enhanced[c], {})
             IN  index' = Upsert(index, mapping.embedding_id, ToPineconeDict(mapping))
          /\ Return(c, selection[c])
    /\ UNCHANGED <<indexListed, boot, similar, mappings, selection, enhanced, checked>>
    /\ UNCHANGED <<queryVars, validVars, recVars, procVars>>

\* ------------------------------------------------------------------------
\* QueryAnalyzer.extract_metadata and extract_date_range
\* ------------------------------------------------------------------------

\* an exception leaves extract_metadata
RaiseFrom(step) ==
    /\ qpc' = "raised"
    /\ qfailed' = step

\* extract_date_range: make_instructor_call(..., GetDateRequests); the
\* oracle's answer is validated when the GetDateRequests object is built
ExtractDateRequests ==
    /\ qpc = "dates"
    /\ \/ /\ RaiseFrom("date_oracle")
          /\ UNCHANGED requests
       \/ \E s \in RawSides, e \in RawSides :
             /\ requests' = [start_date |-> s, end_date |-> e]
             /\ IF ValidGetDateRequest(s) /\ ValidGetDateRequest(e)
                THEN /\ qpc' = "start"
                     /\ UNCHANGED qfailed
                ELSE RaiseFrom("validation")
    /\ UNCHANGED <<query, now, ticks, clockReads, dateRange, metadata>>
    /\ UNCHANGED <<findVars, validVars, recVars, procVars>>

\* midnight passes while extract_metadata runs
Tick ==
    /\ qpc \in {"start", "end"}
    /\ ticks < MaxTicks
    /\ now' = FromOrdinal(ToOrdinal(now) + 1)
    /\ ticks' = ticks + 1
    /\ UNCHANGED <<qpc, query, requests, clockReads, dateRange, metadata, qfailed>>
    /\ UNCHANGED <<findVars, validVars, recVars, procVars>>

ResolveStartCurrentIsToday ==
    /\ qpc = "start"
    /\ LET side == requests.start_date
           r == GetDate(side.period, side.duration, side.exact_date, now)
       IN  /\ clockReads' = [clockReads EXCEPT !.start = Some(now)]
           /\ IF r.ok
              THEN /\ dateRange' = [dateRange EXCEPT !.start_date = r.value]
                   /\ qpc' = "end"
                   /\ UNCHANGED qfailed
              ELSE /\ RaiseFrom("start")
                   /\ UNCHANGED dateRange
    /\ UNCHANGED <<query, now, ticks, requests, metadata>>
    /\ UNCHANGED <<findVars, validVars, recVars, procVars>>

\* GetDateRequests.extract_date_range, the start side: None for period
\* current, else _get_date, which reads the clock
ResolveStart ==
    /\ qpc = "start"
    /\ LET side == requests.start_date
           r == GetDate(side.period, side.duration, side.exact_date, now)
       IN  IF side.period = "current"
           THEN /\ dateRange' = [dateRange EXCEPT !.start_date = None]
                /\ qpc' = "end"
                /\ UNCHANGED <<clockReads, qfailed>>
           ELSE /\ clockReads' = [clockReads EXCEPT !.start = Some(now)]
                /\ IF r.ok
                   THEN /\ dateRange' = [dateRange EXCEPT !.start_date = r.value]
                        /\ qpc' = "end"
                        /\ UNCHANGED qfailed
                   ELSE /\ RaiseFrom("start")
                        /\ UNCHANGED dateRange
    /\ UNCHANGED <<query, now, ticks, requests, metadata>>
    /\ UNCHANGED <<findVars, validVars, recVars, procVars>>

\* GetDateRequests.extract_date_range, the end side: _get_date, which reads
\* the clock again
ResolveEnd ==
    /\ qpc = "end"
    /\ LET side == requests.end_date
           r == GetDate(side.period, side.duration, side.exact_date, now)
       IN  /\ clockReads' = [clockReads EXCEPT !.end = Some(now)]
           /\ IF r.ok
              THEN /\ dateRange' = [dateRange EXCEPT !.end_date = r.value]
                   /\ qpc' = "concept"
                   /\ UNCHANGED qfailed
              ELSE /\ RaiseFrom("end")
                   /\ UNCHANGED dateRange
    /\ UNCHANGED <<query, now, ticks, requests, metadata>>
    /\ UNCHANGED <<findVars, validVars, recVars, procVars>>

ExtractConceptKeepsDates ==
    /\ qpc = "concept"
    /\ qpc' = "returned"
    /\ \/ /\ qfailed' = "concept"
          /\ metadata' = [region |-> DEFAULT_REGION, economic_concept |-> query,
                          start_date |-> dateRange.start_date,
                          end_date |-> dateRange.end_date]
       \/ /\ UNCHANGED qfailed
          /\ \E qm \in OracleMetadata :
                metadata' = [qm EXCEPT !.start_date = dateRange.start_date,
                                       !.end_date = dateRange.end_date]
    /\ UNCHANGED <<query, now, ticks, requests, clockReads, dateRange>>
    /\ UNCHANGED <<findVars, validVars, recVars, procVars>>

\* extract_metadata: make_instructor_call(..., QueryMetadata) inside the try;
\* on an exception the default QueryMetadata is returned
ExtractConcept ==
    /\ qpc = "concept"
    /\ qpc' = "returned"
    /\ \/ /\ qfailed' = "concept"
          /\ metadata' = [region |-> DEFAULT_REGION, economic_concept |-> query,
                          start_date |-> None, end_date |-> None]
       \/ /\ UNCHANGED qfailed
          /\ \E qm \in OracleMetadata :
                metadata' = [qm EXCEPT !.start_date = dateRange.start_date,
                                       !.end_date = dateRange.end_date]
    /\ UNCHANGED <<query, now, ticks, requests, clockReads, dateRange>>
    /\ UNCHANGED <<findVars, validVars, recVars, procVars>>

\* ------------------------------------------------------------------------
\* SeriesSelection.is_valid
\* ------------------------------------------------------------------------

\* candidate.is_valid()
IsValidCall ==
    /\ verdict = Pending
    /\ verdict' = IF IsValid(candidate) THEN "valid" ELSE "invalid"
    /\ UNCHANGED candidate
    /\ UNCHANGED <<findVars, queryVars, recVars, procVars>>

\* ------------------------------------------------------------------------
\* The life of a SeriesMapping: conversion, enrichment, storage, retrieval
\* ------------------------------------------------------------------------

recFrame == <<indexListed, boot, callVars, queryVars, validVars, procVars>>

\* mappings = self._convert_fred_results_to_mappings(results)
ConvertHits ==
    /\ rpc = "convert"
    /\ records' = ConvertFredResultsToMappings(frame)
    /\ rpc' = "pick"
    /\ UNCHANGED <<index, frame, record, restored, recFrame>>

\* a record built from a catalog hit
CatalogRecord ==
    /\ rpc = "pick"
    /\ \E i \in DOMAIN records : record' = records[i]
    /\ rpc' = "catalog"
    /\ UNCHANGED <<index, frame, records, restored, recFrame>>

\* _enhance_and_store_series / _seed_vector_db: SeriesMapping.from_fred_series
\* on the catalog's record of a series and the oracle's enhancement
EnrichedRecord ==
    /\ rpc = "pick"
    /\ \E i \in DOMAIN records, enh \in Enhancements, keywords \in {{}, CoreKeywords[1]} :
          record' = FromFredSeries(records[i].series_id,
                                   SeriesInfoOf(records[i].series_id), enh, keywords)
    /\ rpc' = "enriched"
    /\ UNCHANGED <<index, frame, records, restored, recFrame>>

\* VectorDBConfig.store_series(mapping)
StoreRecord ==
    /\ rpc = "enriched"
    /\ index' = Upsert(index, record.embedding_id, ToPineconeDict(record))
    /\ rpc' = "stored"
    /\ UNCHANGED <<frame, records, record, restored, recFrame>>

\* VectorDBManager.search_series: a record reconstructed from a match
LoadRecord ==
    /\ rpc = "stored"
    /\ \E e \in index : record' = FromPineconeDict(e.metadata)
    /\ rpc' = "loaded"
    /\ UNCHANGED <<index, frame, records, restored, recFrame>>

\* SeriesMapping.from_pinecone_dict(record.to_pinecone_dict())
RoundTrip ==
    /\ rpc \in {"catalog", "enriched", "loaded"}
    /\ restored' = FromPineconeDict(ToPineconeDict(record))
    /\ rpc' = "tripped"
    /\ UNCHANGED <<index, frame, records, record, recFrame>>

\* ------------------------------------------------------------------------
\* MacroSpecialist.process_query
\* ------------------------------------------------------------------------

\* the date ranges extract_metadata may put into the QueryMetadata
ExtractedRanges ==
    {[start_date |-> None, end_date |-> "2024-06-15"],
     [start_date |-> "2023-06-15", end_date |-> "2024-06-15"]}

\* what extract_metadata(user_query) may return: the oracle's answer with
\* the resolved dates, or the default of its except branch
ExtractedMetadata(user_query) ==
    {[qm EXCEPT !.start_date = r.start_date, !.end_date = r.end_date] :
        qm \in OracleMetadata, r \in ExtractedRanges}
    \cup {[region |-> DEFAULT_REGION, economic_concept |-> user_query,
           start_date |-> None, end_date |-> None]}

\* what find_series may return, with the path that produced it: the index
\* path returns the oracle's selection only when it is valid, the catalog
\* path returns the oracle's selection whether valid or not, and every path
\* may end in the no-match selection
FindSeriesOutcomes(concept, region) ==
    {[route |-> "vector", selection |-> sel] : sel \in {x \in SeriesSelections : IsValid(x)}}
    \cup {[route |-> "catalog", selection |-> sel] : sel \in SeriesSelections}
    \cup {[route |-> "none", selection |-> CreateNoMatchSelection(concept, region)]}

\* ChatbotResponse.create_error(message, details)
CreateError(message) ==
    [status |-> "error", message |-> message, series_id |-> None, confidence |-> 0]

\* return response
ProcessReturn(r) ==
    /\ response' = r
    /\ ppc' = "returned"

\* query_metadata = self.query_analyzer.extract_metadata(user_query)
ProcessExtractMetadata ==
    /\ ppc = "metadata"
    /\ \/ /\ ProcessReturn(CreateError("An unexpected error occurred"))
          /\ UNCHANGED <<pmetadata, trail>>
       \/ \E qm \in ExtractedMetadata(query) :
             /\ pmetadata' = qm
             /\ trail' = Append(trail, "metadata")
             /\ ppc' = "find"
             /\ UNCHANGED response
    /\ UNCHANGED <<pselection, route, fetches>>
    /\ UNCHANGED <<findVars, queryVars, validVars, recVars>>

ProcessFindSeriesChecksValid ==
    /\ ppc = "find"
    /\ \E out \in FindSeriesOutcomes(pmetadata.economic_concept, pmetadata.region) :
          /\ pselection' = out.selection
          /\ route' = out.route
          /\ IF ~IsValid(out.selection)
             THEN ProcessReturn(CreateError("No matching assets series found"))
             ELSE ppc' = "fetch" /\ UNCHANGED response
    /\ trail' = Append(trail, "find_series")
    /\ UNCHANGED <<pmetadata, fetches>>
    /\ UNCHANGED <<findVars, queryVars, validVars, recVars>>

\* series_selection = await self.series_analyzer.find_series(...) and the
\* test "if not series_selection.series_id"
ProcessFindSeries ==
    /\ ppc = "find"
    /\ \E out \in FindSeriesOutcomes(pmetadata.economic_concept, pmetadata.region) :
          /\ pselection' = out.selection
          /\ route' = out.route
          /\ IF ~Truthy(out.selection.series_id)
             THEN ProcessReturn(CreateError("No matching assets series found"))
             ELSE ppc' = "fetch" /\ UNCHANGED response
    /\ trail' = Append(trail, "find_series")
    /\ UNCHANGED <<pmetadata, fetches>>
    /\ UNCHANGED <<findVars, queryVars, validVars, recVars>>

ProcessGetSeriesDataUnguarded ==
    /\ ppc = "fetch"
    /\ fetches' = Append(fetches, [series_id |-> pselection.series_id,
                                   start_date |-> pmetadata.start_date,
                                   end_date |-> pmetadata.end_date])
    /\ \/ /\ ppc' = "raised"
          /\ UNCHANGED <<trail, response>>
       \/ /\ trail' = Append(trail, "data")
          /\ ppc' = "analyze"
          /\ UNCHANGED response
    /\ UNCHANGED <<pmetadata, pselection, route>>
    /\ UNCHANGED <<findVars, queryVars, validVars, recVars>>

\* self.fred_service.get_series_data(series_id, start_date, end_date) inside
\* its own try
ProcessGetSeriesData ==
    /\ ppc = "fetch"
    /\ fetches' = Append(fetches, [series_id |-> pselection.series_id,
                                   start_date |-> pmetadata.start_date,
                                   end_date |-> pmetadata.end_date])
    /\ \/ /\ ProcessReturn(CreateError("Error fetching assets"))
          /\ UNCHANGED trail
       \/ /\ trail' = Append(trail, "data")
          /\ ppc' = "analyze"
          /\ UNCHANGED response
    /\ UNCHANGED <<pmetadata, pselection, route>>
    /\ UNCHANGED <<findVars, queryVars, validVars, recVars>>

\* format_value, analyze_series, SourceInfo, create_visualization and the
\* success response, all under the outer try
ProcessAnalyze ==
    /\ ppc = "analyze"
    /\ \/ ProcessReturn(CreateError("An unexpected error occurred"))
       \/ ProcessReturn([status |-> "success", message |-> None,
                         series_id |-> pselection.series_id,
                         confidence |-> pselection.confidence])
    /\ UNCHANGED <<pmetadata, pselection, route, fetches, trail>>
    /\ UNCHANGED <<findVars, queryVars, validVars, recVars>>

\* ------------------------------------------------------------------------
\* Specifications
\* ------------------------------------------------------------------------

Startup ==
    \/ InitializeIndexListed
    \/ InitializeIndexCreate
    \/ SeedSeriesExists
    \/ SeedGetSeriesInfo
    \/ SeedEnhance
    \/ SeedStore

\* the steps of a call that read or write the semantic index
IndexStep(c) ==
    \/ SearchSeries(c)
    \/ EnhanceSeriesExists(c)
    \/ StoreSeries(c)

\* the steps of a call that touch nothing but the call's own state: calls to
\* the reasoning oracle and to the catalog service
LocalStep(c) ==
    \/ AnalyzeVectorResults(c)
    \/ GenerateSearchQuery(c)
    \/ FredSearch(c)
    \/ AnalyzeCatalogResults(c)
    \/ EnhanceGetSeriesInfo(c)
    \/ EnhanceSeries(c)

\* The semantic index is the only state the calls share.  A step that touches
\* the call's own state only commutes with every step of the other calls, so
\* the schedule runs such steps first: a finished call is handed to its
\* caller, and a call at a local step takes it, before any call arrives or
\* touches the index.  The calls interleave at their index operations.
NoneFinished == \A c \in Calls : pc[c] \notin {"returned", "raised"}

NoneLocal ==
    \A c \in Calls :
        pc[c] \notin {"rank_vec", "rewrite", "catalog", "rank_cat", "fetch", "enrich"}

Next ==
    \/ Startup
    \/ \E c \in Calls : Complete(c)
    \/ NoneFinished /\ \E c \in Calls : LocalStep(c)
    \/ NoneFinished /\ NoneLocal /\ \E c \in Calls : FindSeries(c) \/ IndexStep(c)

\* calls interleave at external-call boundaries
Spec == Init /\ [][Next]_vars

NextSeq ==
    \/ Startup
    \/ \E c \in Calls : Complete(c)
    \/ NoneFinished /\ \E c \in Calls : LocalStep(c)
    \/ NoneFinished /\ NoneLocal /\ \E c \in Calls : FindSeriesAlone(c) \/ IndexStep(c)

\* calls run one after the other
SpecSeq == Init /\ [][NextSeq]_vars

\* extract_metadata, from the call to the return or the exception
NextQuery ==
    \/ ExtractDateRequests
    \/ Tick
    \/ ResolveStart
    \/ ResolveEnd
    \/ ExtractConcept

SpecQuery == InitQuery /\ [][NextQuery]_vars

\* is_valid() on every SeriesSelection value
\* the service's startup alone, over all of initial_mappings
SpecStartup == InitStartup /\ [][Startup]_vars

NextRecord ==
    \/ ConvertHits
    \/ CatalogRecord
    \/ EnrichedRecord
    \/ StoreRecord
    \/ LoadRecord
    \/ RoundTrip

SpecRecord == InitRecord /\ [][NextRecord]_vars

NextProcess ==
    \/ ProcessExtractMetadata
    \/ ProcessFindSeries
    \/ ProcessGetSeriesData
    \/ ProcessAnalyze

\* one process_query call, from the call to the response
SpecProcess == InitProcess /\ [][NextProcess]_vars

NextValid == IsValidCall

SpecValid == InitValid /\ [][NextValid]_vars

\* ------------------------------------------------------------------------
\* Properties
\* ------------------------------------------------------------------------

\* the validity predicate of the data model: series_id present,
\* confidence above 0.7, region_match true
SelectionValid(sel) ==
    /\ sel.series_id \notin {None, ""}
    /\ sel.confidence > 7
    /\ sel.region_match

\* the shape of a "no match" selection
NoMatchShape(sel) ==
    /\ sel.series_id = None
    /\ sel.confidence = 0
    /\ sel.region_match = FALSE
    /\ Len(sel.reasoning) > 0

\* the same selection as far as the caller can tell
SameSelection(a, b) ==
    /\ a.series_id = b.series_id
    /\ a.confidence = b.confidence
    /\ a.region_match = b.region_match

\* the semantic index answered the call's query with zero candidates:
\* search_series asks for the index statistics exactly then
IndexReturnedEmpty(c) == ext[c].query = 1 /\ ext[c].describe = 1

\* the index holds at most one entry for a series_id
OneEntryPerSeries ==
    \A e1, e2 \in index : e1.metadata.series_id = e2.metadata.series_id => e1 = e2

\* C1: when the catalog-path selection is valid and the enrichment-and-store
\* step then fails at any point, the caller still receives that same valid
\* selection (a call that entered the enrichment step returns the selection
\* it entered it with).
C1_EnrichmentFailureKeepsSelection ==
    \A c \in Calls :
        (pc[c] = "returned" /\ ext[c].exists >= 1)
            => SameSelection(result[c], selection[c])

\* C2: find_series never raises to its caller; whenever an external call
\* failed or the catalog had no candidates, the selection returned has
\* series_id = None, confidence = 0, region_match = false and a non-empty
\* reasoning, and is not valid.
C2_NeverRaisesNoMatchShape ==
    \A c \in Calls :
        /\ pc[c] # "raised"
        /\ (/\ pc[c] = "returned"
            /\ \/ failedAt[c] # "none"
               \/ ext[c].catalog = 1 /\ mappings[c] = <<>>)
            => /\ NoMatchShape(result[c])
               /\ ~SelectionValid(result[c])

C2_Witness ==
    \E c \in Calls :
        /\ pc[c] = "returned"
        /\ failedAt[c] = "upsert"
        /\ NoMatchShape(result[c])

\* C3: with calls made one after the other (and startup seeding), the index
\* holds at most one entry per series_id; a call that resolves to a series_id
\* whose record is already stored finds it at its existence check and returns
\* without fetching, enriching or upserting, and the index is the same before
\* and after its existence check.
C3_IdempotentPopulation ==
    /\ [](/\ OneEntryPerSeries
          /\ \A c \in Calls :
                checked[c] = "present"
                    => /\ pc[c] = "returned"
                       /\ ext[c].upsert = 0
                       /\ ext[c].enrich = 0
                       /\ ext[c].fetch = 0)
    /\ [][\A c \in Calls :
             (pc[c] = "exists" /\ Stored(index, selection[c].series_id))
                 => index' = index]_vars

\* a later call resolved to a series that an earlier call stored (only
\* find_series stores a record of category Money)
C3_Witness ==
    \E c \in Calls :
        /\ pc[c] = "returned"
        /\ checked[c] = "present"
        /\ ext[c].upsert = 0
        /\ \E e \in index :
              /\ e.metadata.series_id = selection[c].series_id
              /\ e.metadata.category = "Money"

\* C4: when interleaved calls each find the same series_id absent, each may
\* upsert, every upsert goes to the key series_<series_id>, and after every
\* upsert the index holds exactly one record for that series_id, the one of
\* the last writer; it never holds two.
C4_RaceConvergesToOneRecord ==
    /\ [](/\ OneEntryPerSeries
          /\ \A e \in index : e.id = "series_" \o e.metadata.series_id)
    /\ [][\A c \in Calls :
             (ext'[c].upsert = ext[c].upsert + 1 /\ failedAt'[c] = "none")
                 => LET sid == selection[c].series_id
                        held == {e \in index' : e.metadata.series_id = sid}
                    IN  /\ Cardinality(held) = 1
                        /\ \A e \in held :
                              /\ e.id = "series_" \o sid
                              /\ e.metadata.description = enhanced[c].description
                              /\ e.metadata.category = enhanced[c].category
                        /\ \A e \in index :
                              e.metadata.series_id # sid => e \in index']_vars

\* two calls found the same series absent; one has upserted and returned,
\* the other is about to overwrite its record with a different one
C4_Witness ==
    \E c, d \in Calls :
        /\ c # d
        /\ checked[c] = "absent" /\ checked[d] = "absent"
        /\ selection[c].series_id = selection[d].series_id
        /\ pc[c] = "returned" /\ ext[c].upsert = 1 /\ failedAt[c] = "none"
        /\ pc[d] = "store"
        /\ \E e \in index :
              /\ e.metadata.series_id = selection[d].series_id
              /\ e.metadata.description # enhanced[d].description

\* C5 as stated: once a record is stored, no later enrichment-and-store step
\* of any call, interleaved calls included, replaces or modifies it.
C5_NeverOverwritten == [][\A e \in index : e \in index']_vars

\* C5 as amended: a stored record is replaced only by the upsert of a call
\* whose existence check ran before any record of that series was stored; a
\* call whose existence check ran after the record was stored never replaces
\* or modifies it.
C5_OverwrittenOnlyByEarlierCheck ==
    [][\A e \in index :
          e \notin index'
              => \E c \in Calls :
                    /\ ext'[c].upsert = ext[c].upsert + 1
                    /\ selection[c].series_id = e.metadata.series_id
                    /\ checked[c] = "absent"]_vars

\* a call that found the series absent is about to store while a record of
\* the series is in the index
C5_Witness ==
    \E c \in Calls :
        /\ pc[c] = "store"
        /\ checked[c] = "absent"
        /\ Stored(index, selection[c].series_id)

\* C6: when the existence check of the winning series_id returns true, the
\* enrichment step ends at once: no catalog record fetch, no enrichment
\* oracle call, no embedding call, no upsert, and the index is unchanged.
C6_ExistingSeriesSkipsEnrichment ==
    [][\A c \in Calls :
          (/\ pc[c] = "exists"
           /\ ext'[c].exists = ext[c].exists + 1
           /\ failedAt'[c] = "none"
           /\ SeriesExists(index, selection[c].series_id))
              => /\ pc'[c] = "returned"
                 /\ index' = index
                 /\ ext'[c].fetch = 0
                 /\ ext'[c].enrich = 0
                 /\ ext'[c].upsert = 0
                 /\ ext'[c].embed = ext[c].embed]_vars

C6_Witness ==
    \E c \in Calls :
        /\ pc[c] = "returned"
        /\ ext[c].exists = 1
        /\ failedAt[c] = "none"
        /\ SeriesExists(index, selection[c].series_id)
        /\ ext[c].fetch = 0

C8_CacheHitShortCircuit ==
    /\ [](\A c \in Calls :
            /\ (/\ ext[c].rank = 1
                /\ ext[c].catalog = 0
                /\ failedAt[c] = "none"
                /\ pc[c] # "idle"
                /\ SelectionValid(selection[c]))
                   => /\ pc[c] = "returned"
                      /\ result[c] = selection[c]
                      /\ ext[c].rewrite = 0
                      /\ ext[c].exists = 0
                      /\ ext[c].upsert = 0
            /\ ext[c].catalog >= 1 => ext[c].rewrite >= 1
            /\ ext[c].rewrite >= 1
                   => ext[c].query = 1 /\ ext[c].describe + ext[c].rank >= 1)
    /\ [][\A c \in Calls :
             /\ (pc[c] = "rank_vec" /\ pc'[c] = "returned" /\ failedAt'[c] = "none")
                    => index' = index
             /\ ext'[c].rewrite = ext[c].rewrite + 1
                    => \/ ext[c].describe = 1 /\ ext[c].rank = 0
                       \/ /\ ext[c].describe = 0
                          /\ ext[c].rank = 1
                          /\ ~SelectionValid(selection[c])]_vars

C8_Witness ==
    \E c \in Calls :
        /\ pc[c] = "returned"
        /\ ext[c].rank = 1
        /\ ext[c].rewrite = 0
        /\ failedAt[c] = "none"
        /\ SelectionValid(result[c])

\* C9: when the catalog search returns zero hits (or no result object),
\* find_series returns at once a selection with series_id = None; after the
\* catalog search it makes no oracle call and no index read or write.
C9_NoMatchShortCircuit ==
    \A c \in Calls :
        (ext[c].catalog = 1 /\ failedAt[c] = "none" /\ mappings[c] = <<>>)
            => /\ pc[c] = "returned"
               /\ NoMatchShape(result[c])
               /\ ext[c].rank + ext[c].describe = 1
               /\ ext[c].enrich = 0
               /\ ext[c].query = 1
               /\ ext[c].exists = 0
               /\ ext[c].upsert = 0

C9_Witness ==
    \E c \in Calls :
        /\ pc[c] = "returned"
        /\ ext[c].catalog = 1
        /\ failedAt[c] = "none"
        /\ mappings[c] = <<>>
        /\ ext[c].rank = 1

CatalogRanked(c) ==
    /\ ext[c].catalog = 1
    /\ pc[c] \notin {"catalog", "rank_cat"}
    /\ ext[c].rank = (IF ext[c].describe = 1 THEN 1 ELSE 2)

\* the call has entered the enrichment-and-store step
EnrichmentEntered(c) ==
    ext[c].exists + ext[c].fetch + ext[c].enrich + ext[c].upsert > 0

C12_OnePassPerStage ==
    \A c \in Calls :
        /\ \A k \in ExtCalls \ {"rank", "embed"} : ext[c][k] <= 1
        /\ ext[c].rank <= 2
        /\ ext[c].embed <= 2
        /\ (ext[c].catalog = 0 \/ pc[c] = "rank_cat") => ext[c].rank <= 1
        /\ ext[c].rank = 2 => (ext[c].query = 1 /\ ext[c].describe = 0)
        /\ ext[c].embed = 2 => ext[c].enrich = 1

\* a call that went through every stage, each exactly once
C12_Witness ==
    \E c \in Calls :
        /\ pc[c] = "returned"
        /\ ext[c].query = 1 /\ ext[c].rank = 2 /\ ext[c].rewrite = 1
        /\ ext[c].catalog = 1 /\ ext[c].exists = 1 /\ ext[c].fetch = 1
        /\ ext[c].enrich = 1 /\ ext[c].upsert = 1
        /\ failedAt[c] = "none"

DateFailures == {"date_oracle", "validation", "start", "end"}

\* C14: when date-range extraction fails (the date oracle call fails or the
\* date resolver rejects the request), extract_metadata still goes on to
\* concept/region extraction and the caller receives a QueryMetadata object:
\* no failure of date-range extraction leaves extract_metadata as an error.
C14_DateFailureDoesNotBlockConcept ==
    qfailed \in DateFailures => qpc \in {"concept", "returned"}

\* C15: when the concept/region oracle call fails, extract_metadata returns
\* the default QueryMetadata: economic_concept is the raw query text, region
\* is the default region, start_date and end_date are both null, whatever
\* the date range resolved just before.
C15_ConceptFailureReturnsDefault ==
    (qpc = "returned" /\ qfailed = "concept")
        => /\ metadata.economic_concept = query
           /\ metadata.region = DEFAULT_REGION
           /\ metadata.region = "United States"
           /\ metadata.start_date = None
           /\ metadata.end_date = None

\* the concept/region oracle call failed after both dates had been resolved
\* to a date
C15_Witness ==
    /\ qpc = "returned"
    /\ qfailed = "concept"
    /\ query # ""
    /\ dateRange.start_date \notin {None, Pending}
    /\ dateRange.end_date \notin {None, Pending}
    /\ metadata.economic_concept = query

\* both sides of the date range have been resolved
RangeResolved == qpc \in {"concept", "returned"}

\* C16: a start side with period current resolves to null, whatever its
\* other fields; the end side never resolves to null: every successful
\* resolution returns a non-null ISO end date, and an end side with period
\* current resolves to the calendar date the clock showed when it was read.
C16_StartCurrentIsNullEndNeverNull ==
    /\ (qpc \in {"end", "concept", "returned"} /\ requests.start_date.period = "current")
            => dateRange.start_date = None
    /\ RangeResolved
            => /\ dateRange.end_date \notin {None, Pending}
               /\ Len(dateRange.end_date) = 10
               /\ clockReads.end # NoValue
               /\ requests.end_date.period = "current"
                      => /\ dateRange.end_date = IsoFormat(clockReads.end[1])
                         /\ clockReads.end[1] = Date(2024, 6, 15)
                                => dateRange.end_date = "2024-06-15"
                         /\ clockReads.end[1] = Date(2024, 1, 1)
                                => dateRange.end_date = "2024-01-01"

\* a range whose two sides are both current, the start side with a duration
\* and an exact_date besides: start null, end the date of now
C16_Witness ==
    /\ qpc = "returned"
    /\ requests.start_date.period = "current"
    /\ requests.start_date.duration = Some(3)
    /\ requests.end_date.period = "current"
    /\ dateRange.start_date = None
    /\ dateRange.end_date = "2024-06-15"

\* the last day of a month
LastDay(y, m) == CHOOSE d \in 28 .. 31 : IsDate(y, m, d) /\ ~IsDate(y, m, d + 1)

\* the last day of the month before the month of a calendar date
EndOfPreviousMonth(dt) ==
    IF dt.month > 1
    THEN Date(dt.year, dt.month - 1, LastDay(dt.year, dt.month - 1))
    ELSE Date(dt.year - 1, 12, 31)

\* the calendar date n days before a calendar date, counted back month by
\* month
RECURSIVE DaysAgo(_, _)
DaysAgo(dt, n) ==
    IF n < dt.day THEN Date(dt.year, dt.month, dt.day - n)
    ELSE DaysAgo(EndOfPreviousMonth(dt), n - dt.day)

\* C17: within one extract_date_range call both sides are resolved against
\* one captured now: for a start of {day, d} and an end of current, the
\* resolved start is the date exactly d days before the resolved end, also
\* when midnight passes during the call.
C17_SingleCapturedNow ==
    (/\ RangeResolved
     /\ requests.start_date.period = "day"
     /\ requests.end_date.period = "current")
        => /\ dateRange.end_date = IsoFormat(clockReads.end[1])
           /\ dateRange.start_date =
                  IsoFormat(DaysAgo(clockReads.end[1], requests.start_date.duration[1]))

\* the calendar date n calendar months before a date, the day of month cut
\* down to the last day of the target month
MonthsAgo(dt, n) ==
    LET idx == dt.year * 12 + (dt.month - 1) - n
        y == idx \div 12
        m == (idx % 12) + 1
    IN  Date(y, m, IF dt.day > LastDay(y, m) THEN LastDay(y, m) ELSE dt.day)

\* what a relative side is to resolve to, given the date of now
ExpectedRelative(side, today) ==
    LET n == side.duration[1]
    IN  IF side.period = "day" THEN IsoFormat(DaysAgo(today, n))
        ELSE IF side.period = "week" THEN IsoFormat(DaysAgo(today, 7 * n))
        ELSE IF side.period = "month" THEN IsoFormat(MonthsAgo(today, n))
        ELSE IsoFormat(MonthsAgo(today, 12 * n))

\* resolutions worked out by hand: now, period, duration, resolved date
RelativeExamples ==
    {<<Date(2024, 6, 15), "year", 10, "2014-06-15">>,
     <<Date(2024, 3, 31), "month", 1, "2024-02-29">>,
     <<Date(2024, 2, 29), "year", 1, "2023-02-28">>,
     <<Date(2024, 2, 29), "year", 2, "2022-02-28">>,
     <<Date(2024, 3, 31), "year", 1, "2023-03-31">>,
     <<Date(2024, 3, 31), "month", 2, "2024-01-31">>,
     <<Date(2024, 3, 31), "month", 10, "2023-05-31">>,
     <<Date(2024, 3, 31), "month", 14, "2023-01-31">>,
     <<Date(2023, 12, 31), "month", 1, "2023-11-30">>,
     <<Date(2023, 12, 31), "month", 10, "2023-02-28">>,
     <<Date(2024, 6, 15), "month", 10, "2023-08-15">>,
     <<Date(2024, 6, 15), "month", 14, "2023-04-15">>,
     <<Date(2024, 3, 1), "day", 1, "2024-02-29">>,
     <<Date(2024, 3, 1), "day", 2, "2024-02-28">>,
     <<Date(2024, 1, 1), "day", 1, "2023-12-31">>,
     <<Date(2024, 1, 1), "week", 1, "2023-12-25">>,
     <<Date(2023, 12, 31), "week", 1, "2023-12-24">>,
     <<Date(2024, 6, 15), "week", 2, "2024-06-01">>,
     <<Date(2024, 6, 15), "day", 10, "2024-06-05">>,
     <<Date(2024, 6, 15), "week", 10, "2024-04-06">>}

\* a resolved relative side is as expected and agrees with the examples
RelativeAsExpected(side, read, value) ==
    side.period \in {"day", "week", "month", "year"}
        => /\ read # NoValue
           /\ value = ExpectedRelative(side, read[1])
           /\ \A ex \in RelativeExamples :
                  (ex[1] = read[1] /\ ex[2] = side.period /\ ex[3] = side.duration[1])
                      => value = ex[4]

\* C18: for period day or week _get_date returns the calendar date of now
\* minus duration days or 7*duration days; for period month or year it
\* returns now minus duration calendar months or years with the day of month
\* cut down to the last day of the target month (March 31 minus 1 month is
\* the last day of February, February 29 minus 1 year is February 28); with
\* now = 2024-06-15, {year, 10} gives 2014-06-15.
C18_RelativeDateResolution ==
    /\ qpc \in {"end", "concept", "returned"}
            => RelativeAsExpected(requests.start_date, clockReads.start,
                                  dateRange.start_date)
    /\ RangeResolved
            => RelativeAsExpected(requests.end_date, clockReads.end, dateRange.end_date)

\* March 31 minus one month was resolved for the start side and February 29
\* minus one year for the end side
C18_Witness ==
    /\ RangeResolved
    /\ requests.start_date.period = "month"
    /\ requests.start_date.duration = Some(1)
    /\ clockReads.start = Some(Date(2024, 3, 31))
    /\ dateRange.start_date = "2024-02-29"
    /\ requests.end_date.period = "year"
    /\ clockReads.end = Some(Date(2024, 3, 31))
    /\ dateRange.end_date = "2023-03-31"

\* exact_date texts and the date each names, worked out by hand ("none"
\* when the text names no calendar date)
ExactExamples ==
    {<<DateText("0", "1", "-", "0", "1", "-", "2", "0", "2", "0"), "2020-01-01">>,
     <<DateText("0", "2", "-", "2", "9", "-", "2", "0", "2", "4"), "2024-02-29">>,
     <<DateText("1", "2", "-", "3", "1", "-", "1", "9", "9", "9"), "1999-12-31">>,
     <<DateText("0", "3", "-", "0", "4", "-", "2", "0", "2", "1"), "2021-03-04">>,
     <<DateText("0", "2", "-", "3", "0", "-", "2", "0", "2", "1"), "none">>,
     <<DateText("0", "2", "-", "2", "9", "-", "2", "0", "2", "3"), "none">>,
     <<DateText("1", "3", "-", "4", "5", "-", "2", "0", "2", "0"), "none">>}

\* texts that do not match two digits, two digits, four digits
MalformedTexts ==
    {DateText("2", "0", "2", "0", "-", "0", "1", "-", "0", "1"),
     <<"1", "-", "1", "-", "2", "0", "2", "0">>,
     <<>>}

\* the side has period exact and an exact_date that names a calendar date
NamesDate(side) ==
    /\ side.period = "exact"
    /\ side.exact_date # NoValue
    /\ \E ex \in ExactExamples : ex[1] = side.exact_date[1] /\ ex[2] # "none"

\* the side has period exact and an exact_date that does not match the pattern
Malformed(side) ==
    /\ side.period = "exact"
    /\ side.exact_date # NoValue
    /\ side.exact_date[1] \in MalformedTexts

\* a resolved exact side names a date and is resolved to that date
ExactAsExpected(side, value) ==
    side.period = "exact"
        => /\ NamesDate(side)
           /\ \A ex \in ExactExamples : ex[1] = side.exact_date[1] => value = ex[2]

\* C19: for period exact _get_date returns the ISO form of the calendar
\* date the MM-DD-YYYY exact_date names, whatever now and duration are; the
\* resolution fails when exact_date is absent, does not match the
\* two-digit/two-digit/four-digit pattern (rejected when the request is
\* built), or matches the pattern but names no calendar date (rejected by
\* _get_date); it fails for no other exact_date.
C19_ExactDateResolution ==
    /\ qpc \in {"end", "concept", "returned"}
            => ExactAsExpected(requests.start_date, dateRange.start_date)
    /\ RangeResolved => ExactAsExpected(requests.end_date, dateRange.end_date)
    /\ (Malformed(requests.start_date) \/ Malformed(requests.end_date))
            => (qpc = "raised" /\ qfailed = "validation")
    /\ (requests.start_date.period = "exact" /\ ~NamesDate(requests.start_date))
            => (qpc = "start" \/ (qpc = "raised" /\ qfailed \in {"validation", "start"}))
    /\ (requests.end_date.period = "exact" /\ ~NamesDate(requests.end_date))
            => (qpc \in {"start", "end"} \/ qpc = "raised")
    /\ NamesDate(requests.start_date) => qfailed # "start"
    /\ NamesDate(requests.end_date) => qfailed # "end"

\* an exact start with a duration besides and an exact end were resolved,
\* at a now that is neither of the two dates
C19_Witness ==
    /\ qpc = "returned"
    /\ requests.start_date.period = "exact"
    /\ requests.start_date.duration = Some(1)
    /\ dateRange.start_date = "2021-03-04"
    /\ requests.end_date.period = "exact"
    /\ dateRange.end_date = "2024-02-29"
    /\ clockReads.end = Some(Date(2024, 6, 15))

\* the side has a relative period and no usable duration
LacksDuration(side) ==
    /\ side.period \in {"day", "week", "month", "year"}
    /\ side.duration = NoValue \/ side.duration[1] < 1

\* C20: the date resolver never guesses a duration: when the end side, or a
\* start side that is not current, has period day, week, month or year and
\* its duration is missing or below 1, date-range resolution fails with an
\* error (a duration below 1 when the request is built, a missing one in
\* _get_date) and no date range is returned.
C20_NoDefaultDuration ==
    /\ LacksDuration(requests.start_date)
            => /\ qpc \in {"start", "raised"}
               /\ qpc = "raised" => qfailed \in {"validation", "start"}
               /\ dateRange.start_date = Pending
    /\ LacksDuration(requests.end_date)
            => /\ qpc \in {"start", "end", "raised"}
               /\ qpc = "raised" => qfailed \in DateFailures
               /\ dateRange.end_date = Pending
    /\ (LacksDuration(requests.start_date) \/ LacksDuration(requests.end_date))
            => metadata = NoMetadata

\* the start side was resolved and the end side, a year period without a
\* duration, made the resolution fail
C20_Witness ==
    /\ qpc = "raised"
    /\ qfailed = "end"
    /\ requests.end_date.period = "year"
    /\ requests.end_date.duration = NoValue
    /\ dateRange.start_date \notin {None, Pending}
    /\ dateRange.end_date = Pending

\* the side carries a field its period forbids: a duration with period
\* current or exact, or an exact_date with a period other than exact
CarriesForbiddenField(side) ==
    \/ side.period \in {"current", "exact"} /\ side.duration # NoValue
    \/ side.period # "exact" /\ side.exact_date # NoValue

\* C21: a GetDateRequest whose period is current or exact and that carries
\* a duration, or whose period is not exact and that carries an exact_date,
\* is rejected: no date range with such a side is accepted when the request
\* is built, and none is resolved to a date.
C21_ForbiddenFieldsRejected ==
    (CarriesForbiddenField(requests.start_date) \/ CarriesForbiddenField(requests.end_date))
        => /\ qpc = "raised"
           /\ qfailed = "validation"
           /\ dateRange.start_date = Pending
           /\ dateRange.end_date = Pending

\* a record whose embedding_id is "series_" followed by its series_id
KeyedBySeriesId(m) == m.embedding_id = "series_" \o m.series_id

\* C22: a record serialized with to_pinecone_dict and rebuilt with
\* from_pinecone_dict equals the record it was made from, field for field,
\* every key of metadata included
C22_RoundTripEqual == rpc = "tripped" => restored = record

\* C23: every record made from a catalog hit, by enrichment or from an index
\* entry has embedding_id = "series_" + series_id; every index entry is filed
\* under that key, and the existence check of a series_id finds exactly the
\* entry written for that series_id
C23_EmbeddingIdFromSeriesId ==
    /\ \A i \in DOMAIN records : KeyedBySeriesId(records[i])
    /\ rpc \in {"catalog", "enriched", "stored", "loaded", "tripped"} =>
          KeyedBySeriesId(record)
    /\ rpc = "tripped" =>
          /\ KeyedBySeriesId(restored)
          /\ restored.series_id = record.series_id
          /\ restored.embedding_id = record.embedding_id
    /\ \A e \in index : e.id = "series_" \o e.metadata.series_id
    /\ \A i \in 1 .. Len(HitIds) :
          SeriesExists(index, HitIds[i]) <=>
              \E e \in index : e.metadata.series_id = HitIds[i]
    /\ rpc = "stored" =>
          /\ SeriesExists(index, record.series_id)
          /\ \E e \in index :
                /\ e.id = record.embedding_id
                /\ e.metadata.series_id = record.series_id

C23_Witness ==
    /\ rpc = "stored"
    /\ record.series_id = "CPIAUCSL"
    /\ Cardinality(index) = 2

\* the value of a cell, or a default when the frame lacks the column
Copied(cell, default) == IF cell = Missing THEN default ELSE cell

\* the first rows of the frame
HeadOfFrame == Take(frame.rows, HeadRows)

\* C24 as stated: the list holds the first 5 hits (all when fewer), in order,
\* each with empty keywords and region, and description, category, frequency
\* and units copied when present and "Unknown" when absent
C24_FirstFiveUnknownWhenAbsent ==
    rpc # "convert" =>
        /\ Len(records) = Len(HeadOfFrame)
        /\ \A i \in DOMAIN records :
              /\ records[i].series_id = HeadOfFrame[i].id
              /\ records[i].keywords = {}
              /\ records[i].region = ""
              /\ records[i].description = Copied(HeadOfFrame[i].notes, "Unknown")
              /\ records[i].category = Copied(HeadOfFrame[i].group_id, "Unknown")
              /\ records[i].frequency = Copied(HeadOfFrame[i].frequency, "Unknown")
              /\ records[i].units = Copied(HeadOfFrame[i].units, "Unknown")

\* a row with a NaN cell where the record wants a string
Rejected(row) ==
    \E k \in {"id", "title", "group_id", "notes", "frequency", "units",
              "seasonal_adjustment"} : row[k] = NaN

\* positions among the first rows whose row the record accepts
Kept == {i \in DOMAIN HeadOfFrame : ~Rejected(HeadOfFrame[i])}

\* C24: the list holds, in order, one record for each of the first 5 hits
\* that the record accepts, with empty keywords and region, category,
\* frequency and units copied when present and "Unknown" when absent, and
\* description copied when present and empty when absent
C24_AcceptedHeadRowsInOrder ==
    rpc # "convert" =>
        /\ Len(records) = Cardinality(Kept)
        /\ \A j \in DOMAIN records :
              \E i \in Kept :
                  /\ Cardinality({k \in Kept : k < i}) = j - 1
                  /\ records[j].series_id = HeadOfFrame[i].id
                  /\ records[j].title = HeadOfFrame[i].title
                  /\ records[j].keywords = {}
                  /\ records[j].region = ""
                  /\ records[j].description = Copied(HeadOfFrame[i].notes, "")
                  /\ records[j].category = Copied(HeadOfFrame[i].group_id, "Unknown")
                  /\ records[j].frequency = Copied(HeadOfFrame[i].frequency, "Unknown")
                  /\ records[j].units = Copied(HeadOfFrame[i].units, "Unknown")

C24_Witness ==
    /\ rpc = "pick"
    /\ Len(frame.rows) > HeadRows
    /\ Len(records) = HeadRows - 1
    /\ records[1].category = "Unknown"
    /\ records[1].description # ""

\* the entries the step adds to the index or replaces in it
Written == index' \ index

\* the record _enhance_and_store_series builds in call c
EnrichedBy(c) ==
    FromFredSeries(selection[c].series_id, SeriesInfoOf(selection[c].series_id),
                   enhanced[c], {})

\* the record the seeding loop builds for its current series
EnrichedBySeed ==
    FromFredSeries(CoreSeries[boot.i], SeriesInfoOf(CoreSeries[boot.i]), boot.enh,
                   CoreKeywords[boot.i])

\* the index entry of a record
EntryFor(m) == [id |-> m.embedding_id, metadata |-> ToPineconeDict(m)]

\* the upsert call c makes comes after that call's successful record fetch
\* and enrichment, and writes the enriched record of the selected series
UpsertAfterEnrichment(c) ==
    /\ pc[c] = "store"
    /\ failedAt[c] = "none"
    /\ ext[c].fetch = 1
    /\ ext[c].enrich = 1
    /\ enhanced[c] \in Enhancements
    /\ Written \subseteq {EntryFor(EnrichedBy(c))}
    /\ \A e \in Written : e.metadata.series_id = selection[c].series_id

\* the upsert of the seeding loop comes after the fetch and the enrichment of
\* the same series, and writes its enriched record
SeedUpsertAfterEnrichment ==
    /\ boot.pc = "seed_store"
    /\ boot.done = <<"exists", "fetch", "enrich">>
    /\ boot.enh \in SeedEnhancements
    /\ Written = {EntryFor(EnrichedBySeed)}

\* the minimal records call c holds from its catalog search
Minimal(c) == {EntryFor(mappings[c][i]) : i \in DOMAIN mappings[c]}

\* C25: every upsert, by find_series or by seeding, follows in the same call
\* a successful fetch of the catalog record and a successful enrichment of
\* the same series and writes the enriched record; a minimal record made
\* from a catalog hit is never written
C25_OnlyEnrichedRecordsStored ==
    [][/\ \A c \in Calls : ext'[c].upsert > ext[c].upsert => UpsertAfterEnrichment(c)
       /\ index' # index =>
             /\ SeedUpsertAfterEnrichment
                \/ \E c \in Calls :
                      /\ ext'[c].upsert > ext[c].upsert
                      /\ UpsertAfterEnrichment(c)
             /\ \A c \in Calls : Written \cap Minimal(c) = {}]_vars

C25_Witness ==
    \E c \in Calls :
        /\ pc[c] = "returned"
        /\ ext[c].upsert = 1
        /\ mappings[c] # <<>>
        /\ EntryFor(EnrichedBy(c)) \in index
        /\ Minimal(c) \cap index = {}
        /\ boot.created

\* C26: when index.query or the ranking of the index's candidates raises,
\* find_series returns the no-match selection, and neither the search
\* rewrite nor the catalog search is invoked in that call
C26_VectorPathFailureReturnsNoMatch ==
    \A c \in Calls :
        (\/ failedAt[c] = "query"
         \/ failedAt[c] = "rank" /\ mappings[c] = <<>>) =>
            /\ pc[c] = "returned"
            /\ result[c] = CreateNoMatchSelection(RequestOf(c).concept,
                                                  RequestOf(c).region)
            /\ ext[c].rewrite = 0
            /\ ext[c].catalog = 0
            /\ ext[c].exists = 0

C26_Witness ==
    \E c \in Calls :
        /\ failedAt[c] = "rank"
        /\ similar[c] # <<>>
        /\ ext[c].rank = 1
        /\ ext[c].catalog = 0
        /\ pc[c] = "returned"

\* startup is over: initialize_index has returned or raised
StartupOver == boot.pc \in {"ready", "failed"}

\* C29: the seeding loop runs only when this initialize_index call created
\* the index; an index that was listed or that create_index reported as
\* ALREADY_EXISTS is neither seeded nor written; a series is stored only
\* after its existence check answered false; and a failure while one series
\* is processed does not keep the loop from reaching the remaining series
C29_SeedOnlyOnCreateAllSeriesAttempted ==
    /\ [](~boot.created => boot.pc \in {"init", "ready", "failed"})
    /\ [][index' # index =>
             /\ boot.created
             /\ boot.pc = "seed_store"
             /\ boot.done[1] = "exists"
             /\ ~SeriesExists(index, CoreSeries[boot.i])]_vars
    /\ [](boot.created /\ StartupOver => boot.i > boot.n)

\* the steps a successful process_query completes, in order
FullTrail == <<"metadata", "find_series", "data">>

\* C27: process_query never raises; it returns status "error" when metadata
\* extraction fails, when the selection has no series_id, when the data
\* fetch fails and when a later step fails, and status "success" only after
\* metadata extraction, series resolution and data fetch completed in order
C27_ProcessQueryNeverRaises ==
    /\ ppc \in {"metadata", "find", "fetch", "analyze", "returned"}
    /\ ppc # "returned" => response = NoResponse
    /\ ppc = "returned" =>
          /\ response.status \in {"error", "success"}
          /\ \E n \in 0 .. Len(FullTrail) : trail = SubSeq(FullTrail, 1, n)
          /\ trail # FullTrail => response.status = "error"
          /\ trail = <<>> => fetches = <<>> /\ pselection = Unbound
          /\ Len(trail) = 2 /\ ~Truthy(pselection.series_id) =>
                fetches = <<>> /\ response.message = "No matching assets series found"
          /\ Len(trail) = 2 /\ Truthy(pselection.series_id) =>
                Len(fetches) = 1 /\ response.message = "Error fetching assets"
    /\ response.status = "success" =>
          /\ trail = FullTrail
          /\ pmetadata \in ExtractedMetadata(query)
          /\ Truthy(pselection.series_id)
          /\ Len(fetches) = 1
          /\ response.series_id = pselection.series_id

C27_Witness ==
    /\ ppc = "returned"
    /\ response.status = "error"
    /\ trail = FullTrail
    /\ IsValid(pselection)

Earlier(a, b) ==
    \/ a.year < b.year
    \/ a.year = b.year /\ a.month < b.month
    \/ a.year = b.year /\ a.month = b.month /\ a.day < b.day

\* the date a relative period and a duration lead back to from today
RelativeDate(period, n, today) ==
    IF period = "day" THEN DaysAgo(today, n)
    ELSE IF period = "week" THEN DaysAgo(today, 7 * n)
    ELSE IF period = "month" THEN MonthsAgo(today, n)
    ELSE MonthsAgo(today, 12 * n)

\* the durations of the date oracle that are at least 1
PositiveDurations == {d[1] : d \in {x \in DurationValues : x # NoValue /\ x[1] >= 1}}

\* _get_date resolves (period, n) at today to the date d
ResolvesTo(period, n, today, d) ==
    GetDate(period, Some(n), NoValue, today) = Ok(IsoFormat(d))

\* C30: for a start side with period day, week, month or year and duration
\* at least 1 and an end side with period current, a successful
\* extract_date_range returns a start date that is not null and strictly
\* earlier than the end date; and for a fixed period and now a larger
\* duration never resolves to a later date
C30_StartBeforeEndAndMonotone ==
    /\ (/\ RangeResolved
        /\ requests.start_date.period \in {"day", "week", "month", "year"}
        /\ requests.start_date.duration # NoValue
        /\ requests.start_date.duration[1] >= 1
        /\ requests.end_date.period = "current")
            => LET start == RelativeDate(requests.start_date.period,
                                         requests.start_date.duration[1],
                                         clockReads.start[1])
               IN  /\ dateRange.start_date \notin {None, Pending}
                   /\ dateRange.start_date = IsoFormat(start)
                   /\ dateRange.end_date = IsoFormat(clockReads.end[1])
                   /\ Earlier(start, clockReads.end[1])
    /\ qpc = "dates" =>
          \A period \in {"day", "week", "month", "year"} :
              \A m \in PositiveDurations, n \in PositiveDurations :
                  m < n =>
                      /\ ResolvesTo(period, m, now, RelativeDate(period, m, now))
                      /\ ResolvesTo(period, n, now, RelativeDate(period, n, now))
                      /\ ~Earlier(RelativeDate(period, m, now),
                                  RelativeDate(period, n, now))

\* March 31 minus one month was resolved for the start and the end is the
\* current date
C30_Witness ==
    /\ RangeResolved
    /\ requests.start_date.period = "month"
    /\ requests.start_date.duration = Some(1)
    /\ requests.end_date.period = "current"
    /\ clockReads.start = Some(Date(2024, 3, 31))
    /\ dateRange.start_date = "2024-02-29"
    /\ dateRange.end_date = "2024-03-31"

====
